---- MODULE Spec2Model ----
(***************************************************************************)
(* Alarm broker: trigger pipeline, alarm state machine, operator API and   *)
(* escalation worker, modelled from services/alarm_broker/alarm_broker.    *)
(***************************************************************************)
EXTENDS Integers, Sequences, FiniteSets, TLC

(***************************************************************************)
(* Bounds of the model.                                                    *)
(***************************************************************************)
MaxReq == 2          \* trigger requests in flight / issued
MaxBucket == 1       \* 10-second buckets 0..MaxBucket a request may fall in
MaxRate == 2         \* settings.rate_limit_per_minute ranges over 1..MaxRate

(***************************************************************************)
(* Program constants.                                                      *)
(***************************************************************************)
BucketsPerMinute == 6      \* minute_bucket = epoch // 60, bucket_10s = epoch // 10
ReserveAttempts == 3       \* for _attempt in range(3)

None == "none"              \* a null string column / local
NoId == 0                   \* absent KV key, null identifier
Garbage == -1               \* a KV value uuid.UUID() rejects
UnknownId == 9              \* an id / ack token of no alarm
NoTime == 0                 \* a null timestamp column

\* constants.py
PRIORITY_ALL == {"P0", "P1", "P2", "P3"}
PRIORITY_CRITICAL == "P0"
DEFAULT_SEVERITY == PRIORITY_CRITICAL

TRIGGERED == "triggered"
ACKNOWLEDGED == "acknowledged"
RESOLVED == "resolved"
CANCELLED == "cancelled"
AlarmStatus == {TRIGGERED, ACKNOWLEDGED, RESOLVED, CANCELLED}

Reqs == 1..MaxReq
Buckets == 0..MaxBucket
Tokens == {"tokA", "tokUnbound", "tokUnknown"}

\* every token of the model; "tokNoPerson" is used by the requests of
\* SpecTriggerDev only
AllTokens == Tokens \cup {"tokNoPerson"}

\* devices table, keyed by device_token ("tokUnknown" has no row)
Devices ==
    [t \in {"tokA", "tokUnbound", "tokNoPerson"} |->
        IF t = "tokA" THEN [person_id |-> "p1", room_id |-> "r1"]
        ELSE IF t = "tokUnbound" THEN [person_id |-> "p1", room_id |-> None]
        ELSE [person_id |-> None, room_id |-> "r1"]]

\* core/rate_limit.py minute_bucket, on the same wall clock as bucket_10s
minute_bucket(bucket) == bucket \div BucketsPerMinute

\* yealink_alarm: "rate_bucket = None if settings.simulation_enabled else
\* minute_bucket()"; NoBucket stands for None
NoBucket == -1
rate_bucket(simulation_enabled, bucket) ==
    IF simulation_enabled THEN NoBucket ELSE minute_bucket(bucket)

\* TriggerService.__init__: "rate_limit_bucket if rate_limit_bucket is not
\* None else minute_bucket()"
_rate_limit_bucket(rate_limit_bucket, bucket) ==
    IF rate_limit_bucket # NoBucket THEN rate_limit_bucket ELSE minute_bucket(bucket)

\* uuid.uuid4(): an identifier no other request draws
uuid4(r) == r

VARIABLES
    settings,   \* effective configuration
    kv_idem,    \* KV: idempotency key (token, bucket) -> value
    kv_rate,    \* KV: rate-limit counter (token, minute bucket) -> int
    alarms,     \* DB: alarms table, a function from the ids of the rows
    jobs,       \* queue: jobs enqueued so far, in order
    treq,       \* trigger requests: position and locals of process_trigger
    sess,       \* state-changing requests (ack page, operator API): session and locals
    clock,      \* datetime.now(UTC), a logical clock
    bulk,       \* a bulk ack / resolve / cancel request: locals of its loop
    worker,     \* the worker: the job it runs, its position and locals
    deferred,   \* queue: escalate jobs enqueued with _defer_by, not yet run
    notifications, \* DB: alarm_notifications table, rows in insertion order
    sent,       \* calls made to the channel adapters, in order
    pager,      \* a client walking GET /v1/alarms page by page
    escalation_steps, \* DB: escalation_steps table, the rows of the policy "default"
    http        \* a connector call: the retry loops and the HTTP requests it sent

vars == <<settings, kv_idem, kv_rate, alarms, jobs, treq, sess, clock, bulk,
          worker, deferred, notifications, sent, pager, escalation_steps, http>>

workerVars == <<worker, deferred, notifications, sent>>
\* the variables the trigger pipeline never touches
outsideTrigger == <<sess, clock, bulk, workerVars, pager, escalation_steps, http>>
\* the variables the single-alarm requests never touch
outsideLife == <<settings, kv_idem, kv_rate, treq, bulk, workerVars, pager,
                 escalation_steps, http>>
\* the variables a bulk request never touches
outsideBulk == <<settings, kv_idem, kv_rate, treq, sess, workerVars, pager,
                 escalation_steps, http>>
\* the variables the worker never writes
outsideWorker == <<settings, kv_idem, kv_rate, treq, sess, clock, bulk, pager,
                   escalation_steps, http>>

\* no worker is running: nothing is taken from the queue, and no policy has
\* been loaded
NoWorker ==
    /\ worker = <<>>
    /\ escalation_steps = {}
    /\ http = <<>>
    /\ deferred = {}
    /\ notifications = <<>>
    /\ sent = <<>>

IdemKeys == AllTokens \X Buckets
RateKeys == AllTokens \X {minute_bucket(b) : b \in Buckets}
AlarmIds == Reqs

IdleReq == [pc |-> "idle", token |-> None, bucket |-> 0, minute |-> 0,
            existing |-> NoId, alarm_id |-> NoId, attempt |-> 0,
            code |-> 0, duplicate |-> FALSE, out_id |-> NoId,
            rl_val |-> 0, reserved |-> FALSE, created |-> FALSE, error |-> None,
            overlap |-> FALSE, same_key |-> FALSE, peer_ip |-> None,
            forwarded |-> <<>>, client_ip |-> None]

\* services/trigger_service.py create_alarm: the row persisted for a trigger.
\* deleted_at / deleted_by are columns of the alarms table (migration 0004)
\* that the Alarm class does not map: they keep their NULL default
NewAlarm(id, token, bucket) ==
    [id |-> id, status |-> TRIGGERED, severity |-> DEFAULT_SEVERITY,
     acked_at |-> NoTime, acked_by |-> None,
     resolved_at |-> NoTime, resolved_by |-> None,
     cancelled_at |-> NoTime, cancelled_by |-> None,
     deleted_at |-> NoTime, deleted_by |-> None,
     meta |-> [received_at |-> "now", client_ip |-> "ip", user_agent |-> "ua",
               idempotency |-> <<token, bucket>>]]

\* the stores before the first request
EmptyBroker ==
    /\ kv_idem = [k \in IdemKeys |-> NoId]
    /\ kv_rate = [k \in RateKeys |-> 0]
    /\ alarms = <<>>
    /\ jobs = <<>>
    /\ treq = [r \in Reqs |-> IdleReq]
    /\ sess = <<>>
    /\ clock = 1
    /\ bulk = <<>>
    /\ NoWorker
    /\ pager = <<>>

TriggerInitFor(simulation) ==
    /\ settings \in [rate_limit_per_minute : 1..MaxRate, simulation_enabled : simulation,
                       admin_api_key : {"secret"},
                       yelk_ip_allowlist : {{}}, trusted_proxy_cidrs : {{}},
                       sendxms_enabled : {TRUE}, signal_enabled : {TRUE},
                       webhook_enabled : {FALSE}]
    /\ EmptyBroker

TriggerInit == TriggerInitFor({FALSE})

Finish(r, code, fields) ==
    treq' = [treq EXCEPT ![r] = [f \in DOMAIN IdleReq |->
                IF f = "pc" THEN "done"
                ELSE IF f = "code" THEN code
                ELSE IF f \in DOMAIN fields THEN fields[f]
                ELSE treq[r][f]]]

Goto(r, pc) == treq' = [treq EXCEPT ![r].pc = pc]

InFlight(r) == treq[r].pc \notin {"idle", "done"}

\* clear_idempotency: redis.delete(idem_key)
clear_idempotency_skip(kv, key) == kv
clear_idempotency(kv, key) == [kv EXCEPT ![key] = NoId]

\* _check_idempotency: "if existing_alarm" after session.get(Alarm, existing_id)
existing_alarm_never(rows, existing_id) == FALSE
existing_alarm_always(rows, existing_id) == TRUE
existing_alarm(rows, existing_id) == existing_id \in DOMAIN rows

\* check_rate_limit: return rl_val <= self._settings.rate_limit_per_minute
within_limit_off_by_one(rl_val, limit) == rl_val <= limit + 1
within_limit(rl_val, limit) == rl_val <= limit

IdemKey(r) == <<treq[r].token, treq[r].bucket>>
RateKey(r) == <<treq[r].token, treq[r].minute>>

\* Addresses: an IP network is the set of the addresses in it; a string
\* outside ValidIps is one ipaddress.ip_address() rejects
PhoneIp == "203.0.113.5"
ProxyIp == "10.0.0.9"
OtherIp == "198.51.100.7"
Loopback == "127.0.0.1"
ValidIps == {PhoneIp, ProxyIp, OtherIp, Loopback}

\* api/deps.py _is_ip
_is_ip(value) == value \in ValidIps

\* api/deps.py _is_trusted_proxy
_is_trusted_proxy_any_peer(peer_ip, trusted_proxy_cidrs) == trusted_proxy_cidrs # {}
_is_trusted_proxy(peer_ip, trusted_proxy_cidrs) ==
    /\ trusted_proxy_cidrs # {}
    /\ _is_ip(peer_ip)
    /\ \E net \in trusted_proxy_cidrs : peer_ip \in net

\* api/deps.py get_client_ip; forwarded is the X-Forwarded-For header split
\* at its commas (<<>> when the header is missing or empty)
get_client_ip(peer_ip, forwarded, trusted_proxy_cidrs) ==
    IF /\ forwarded # <<>>
       /\ _is_trusted_proxy(peer_ip, trusted_proxy_cidrs)
       /\ _is_ip(forwarded[1])
    THEN forwarded[1]
    ELSE IF _is_ip(peer_ip) THEN peer_ip
    ELSE Loopback

\* core/ip_allowlist.py ip_allowed
ip_allowed_any(ip, allowlist) == TRUE
ip_allowed(ip, allowlist) ==
    \/ allowlist = {}
    \/ /\ _is_ip(ip)
       /\ \E net \in allowlist : ip \in net

\* a request that reaches the service straight from the phone
DirectClients == {[peer_ip |-> PhoneIp, forwarded |-> <<>>]}

\* api/routes/yealink.py yealink_alarm: the source address check, then the
\* request enters with its token and the buckets of its arrival time;
\* process_trigger step 1 validates the token
TriggerArrive(r, tokens, buckets, clients) ==
    /\ treq[r].pc = "idle"
    /\ \A q \in Reqs : q < r => treq[q].pc # "idle"
    /\ \E t \in tokens, b \in buckets, client \in clients :
          LET concurrent == \E q \in Reqs : InFlight(q)
              SameKey(p) == InFlight(p) /\ treq[p].token = t /\ treq[p].bucket = b
              client_ip == get_client_ip(client.peer_ip, client.forwarded,
                                         settings.trusted_proxy_cidrs)
              arrived == [IdleReq EXCEPT !.token = t, !.bucket = b,
                                         !.peer_ip = client.peer_ip,
                                         !.forwarded = client.forwarded,
                                         !.client_ip = client_ip]
          IN
          IF ~settings.simulation_enabled
             /\ ~ip_allowed(client_ip, settings.yelk_ip_allowlist)
          THEN treq' = [treq EXCEPT ![r] = [arrived EXCEPT !.pc = "done", !.code = 403,
                                                          !.error = "IP not allowed"]]
          ELSE treq' = [q \in Reqs |->
                     IF q = r
                     THEN [arrived EXCEPT !.pc = "idem_get",
                                          !.minute = _rate_limit_bucket(
                                              rate_bucket(settings.simulation_enabled, b), b),
                                          !.overlap = concurrent,
                                          !.same_key = \E p \in Reqs : SameKey(p)]
                     ELSE IF SameKey(q) THEN [treq[q] EXCEPT !.overlap = TRUE,
                                                             !.same_key = TRUE]
                     ELSE IF InFlight(q) THEN [treq[q] EXCEPT !.overlap = TRUE]
                     ELSE treq[q]]
    /\ UNCHANGED <<settings, kv_idem, kv_rate, alarms, jobs, outsideTrigger>>

TriggerStartFrom(r, tokens, buckets) == TriggerArrive(r, tokens, buckets, DirectClients)

TriggerStart(r) == TriggerStartFrom(r, Tokens, Buckets)

\* check_idempotency: redis.get(idem_key)
IdemGet(r) ==
    /\ treq[r].pc = "idem_get"
    /\ LET v == kv_idem[IdemKey(r)] IN
         treq' = [treq EXCEPT ![r].existing = v,
                   ![r].pc = IF v = NoId THEN "reserve_set"
                             ELSE IF v = Garbage THEN "idem_del_invalid"
                             ELSE "idem_lookup"]
    /\ UNCHANGED <<settings, kv_idem, kv_rate, alarms, jobs, outsideTrigger>>

\* check_idempotency: invalid UUID in Redis, redis.delete(idem_key)
IdemDeleteInvalid(r) ==
    /\ treq[r].pc = "idem_del_invalid"
    /\ kv_idem' = [kv_idem EXCEPT ![IdemKey(r)] = NoId]
    /\ Goto(r, "reserve_set")
    /\ UNCHANGED <<settings, kv_rate, alarms, jobs, outsideTrigger>>

\* process_trigger step 2: "if is_duplicate and existing_alarm: return ..."
\* comes before step 4 (_check_rate_limit): the counter is not touched
rate_after_duplicate_counted(kv, key) == [kv EXCEPT ![key] = @ + 1]
rate_after_duplicate(kv, key) == kv

\* _check_idempotency: session.get(Alarm, existing_id); duplicate answer
IdemLookup(r) ==
    /\ treq[r].pc = "idem_lookup"
    /\ IF existing_alarm(alarms, treq[r].existing)
       THEN /\ Finish(r, 200, [duplicate |-> TRUE, out_id |-> treq[r].existing])
            /\ kv_rate' = rate_after_duplicate(kv_rate, RateKey(r))
       ELSE /\ Goto(r, "idem_clear")
            /\ UNCHANGED kv_rate
    /\ UNCHANGED <<settings, kv_idem, alarms, jobs, outsideTrigger>>

\* _check_idempotency: invalid reference, clear_idempotency(token)
IdemClear(r) ==
    /\ treq[r].pc = "idem_clear"
    /\ kv_idem' = clear_idempotency(kv_idem, IdemKey(r))
    /\ Goto(r, "reserve_set")
    /\ UNCHANGED <<settings, kv_rate, alarms, jobs, outsideTrigger>>

\* reserve_alarm_id: redis.set(idem_key, uuid4(), ex=30, nx=True)
ReserveSet(r) ==
    /\ treq[r].pc = "reserve_set"
    /\ IF kv_idem[IdemKey(r)] = NoId
       THEN /\ kv_idem' = [kv_idem EXCEPT ![IdemKey(r)] = uuid4(r)]
            /\ treq' = [treq EXCEPT ![r].alarm_id = uuid4(r),
                                    ![r].reserved = TRUE,
                                    ![r].pc = "rate_incr"]
       ELSE /\ Goto(r, "reserve_get")
            /\ UNCHANGED kv_idem
    /\ UNCHANGED <<settings, kv_rate, alarms, jobs, outsideTrigger>>

NextAttempt(r) ==
    IF treq[r].attempt + 1 >= ReserveAttempts
    THEN Finish(r, 500, [error |-> "Idempotency failure"])
    ELSE treq' = [treq EXCEPT ![r].attempt = @ + 1, ![r].pc = "reserve_set"]

\* reserve_alarm_id: the set failed, redis.get(idem_key) to use the winner's id;
\* a value that is no UUID is deleted and the attempt repeated
ReserveGet(r) ==
    /\ treq[r].pc = "reserve_get"
    /\ LET v == kv_idem[IdemKey(r)] IN
         IF v = NoId THEN NextAttempt(r) /\ UNCHANGED kv_idem
         ELSE IF v = Garbage
         THEN /\ kv_idem' = [kv_idem EXCEPT ![IdemKey(r)] = NoId]
              /\ NextAttempt(r)
         ELSE /\ treq' = [treq EXCEPT ![r].alarm_id = v, ![r].pc = "rate_incr"]
              /\ UNCHANGED kv_idem
    /\ UNCHANGED <<settings, kv_rate, alarms, jobs, outsideTrigger>>

\* check_rate_limit: redis.incr(rl_key) and the comparison with the limit
CheckRateLimit(r) ==
    /\ treq[r].pc = "rate_incr"
    /\ LET rl_val == kv_rate[RateKey(r)] + 1 IN
         /\ kv_rate' = [kv_rate EXCEPT ![RateKey(r)] = rl_val]
         /\ treq' = [treq EXCEPT ![r].rl_val = rl_val,
                 ![r].pc = IF within_limit(rl_val, settings.rate_limit_per_minute)
                           THEN "device" ELSE "rate_clear"]
    /\ UNCHANGED <<settings, kv_idem, alarms, jobs, outsideTrigger>>

\* process_trigger step 4: clear_idempotency(token), then 429
RateLimitedClear(r) ==
    /\ treq[r].pc = "rate_clear"
    /\ kv_idem' = clear_idempotency(kv_idem, IdemKey(r))
    /\ Finish(r, 429, [error |-> "Rate limit exceeded"])
    /\ UNCHANGED <<settings, kv_rate, alarms, jobs, outsideTrigger>>

\* validate_device: "if not device.person_id or not device.room_id"
mapping_incomplete_room_only(device) == device.room_id = None
mapping_incomplete(device) == device.person_id = None \/ device.room_id = None

\* validate_device: select(Device).where(device_token == token)
ValidateDevice(r) ==
    /\ treq[r].pc = "device"
    /\ LET token == treq[r].token IN
         IF token \notin DOMAIN Devices
         THEN treq' = [treq EXCEPT ![r].error = "Unknown token", ![r].pc = "device_clear"]
         ELSE IF mapping_incomplete(Devices[token])
         THEN treq' = [treq EXCEPT ![r].error = "Device mapping incomplete",
                                   ![r].pc = "device_clear"]
         ELSE Goto(r, "create")
    /\ UNCHANGED <<settings, kv_idem, kv_rate, alarms, jobs, outsideTrigger>>

\* process_trigger step 5: clear_idempotency(token), then 404 / 409
DeviceErrorClear(r) ==
    /\ treq[r].pc = "device_clear"
    /\ kv_idem' = clear_idempotency(kv_idem, IdemKey(r))
    /\ Finish(r, IF treq[r].error = "Unknown token" THEN 404 ELSE 409, <<>>)
    /\ UNCHANGED <<settings, kv_rate, alarms, jobs, outsideTrigger>>

\* create_alarm without "await self._session.commit()"
CreateAlarmUncommitted(r) ==
    /\ treq[r].pc = "create"
    /\ treq' = [treq EXCEPT ![r].created = TRUE, ![r].pc = "enqueue"]
    /\ UNCHANGED <<settings, kv_idem, kv_rate, alarms, jobs, outsideTrigger>>

\* create_alarm: session.add(alarm); session.commit().  The primary key
\* rejects a second row with the same id (the request fails, nothing is cleared)
CreateAlarm(r) ==
    /\ treq[r].pc = "create"
    /\ LET id == treq[r].alarm_id IN
         IF id \notin DOMAIN alarms
         THEN /\ alarms' = alarms @@ (id :> NewAlarm(id, treq[r].token, treq[r].bucket))
              /\ treq' = [treq EXCEPT ![r].created = TRUE, ![r].pc = "enqueue"]
         ELSE /\ Finish(r, 500, [error |-> "IntegrityError"])
              /\ UNCHANGED alarms
    /\ UNCHANGED <<settings, kv_idem, kv_rate, jobs, outsideTrigger>>

\* EventPublisher.JOB_NAME: the one function name _publish enqueues under
JOB_NAME == "process_alarm_event"

\* EventPublisher._publish: enqueue_job(self.JOB_NAME, payload)
Job(event_type, alarm_id, by) ==
    [function |-> JOB_NAME, event_type |-> event_type, alarm_id |-> alarm_id, by |-> by]

\* _send_notifications: publish_alarm_created, publish_alarm_state_changed
SendNotifications(r) ==
    /\ treq[r].pc = "enqueue"
    /\ jobs' = jobs \o <<Job("alarm.created", treq[r].alarm_id, r),
                         Job("alarm.state_changed", treq[r].alarm_id, r)>>
    /\ Finish(r, 200, [out_id |-> treq[r].alarm_id])
    /\ UNCHANGED <<settings, kv_idem, kv_rate, alarms, outsideTrigger>>

\* the steps of process_trigger after the arrival of the request
TriggerSteps(r) ==
        \/ IdemGet(r)
        \/ IdemLookup(r)
        \/ IdemClear(r)
        \/ ReserveSet(r)
        \/ ReserveGet(r)
        \/ CheckRateLimit(r)
        \/ RateLimitedClear(r)
        \/ ValidateDevice(r)
        \/ DeviceErrorClear(r)
        \/ CreateAlarm(r)
        \/ SendNotifications(r)

TriggerNext == \E r \in Reqs : TriggerStart(r) \/ TriggerSteps(r)

SpecTrigger == TriggerInit /\ [][TriggerNext]_vars

\* The same pipeline with requests of one 10-second bucket from every kind
\* of device: bound, without room, without person, unknown
DevStart(r) == TriggerStartFrom(r, AllTokens, {0})

DevNext == \E r \in Reqs : DevStart(r) \/ TriggerSteps(r)

SpecTriggerDev == TriggerInit /\ [][DevNext]_vars

\* The same pipeline behind an allowlist, with requests arriving straight
\* from a phone, through the reverse proxy, from elsewhere or without a peer
\* address, with and without an X-Forwarded-For header
Clients ==
    [peer_ip : {PhoneIp, ProxyIp, OtherIp, ""},
     forwarded : {<<>>, <<PhoneIp>>, <<"unknown">>}]

IpInit ==
    /\ settings \in [rate_limit_per_minute : {1}, simulation_enabled : {FALSE},
                       admin_api_key : {"secret"},
                       yelk_ip_allowlist : {{}, {{PhoneIp}}},
                       trusted_proxy_cidrs : {{}, {{ProxyIp}}},
                       sendxms_enabled : {TRUE}, signal_enabled : {TRUE},
                       webhook_enabled : {FALSE}]
    /\ EmptyBroker

IpStart(r) == TriggerArrive(r, {"tokA", "tokUnknown"}, {0}, Clients)

\* two requests are enough to compare the outcomes of a pair
IpReqs == {1, 2}

IpNext == \E r \in IpReqs : IpStart(r) \/ TriggerSteps(r)

SpecTriggerIp == IpInit /\ [][IpNext]_vars

\* The same pipeline in simulation mode (settings.simulation_enabled)
SimInit == TriggerInitFor({TRUE})

SpecTriggerSim == SimInit /\ [][DevNext]_vars

\* create_alarm: session.commit() raises (the database is not reachable);
\* nothing in process_trigger or yealink_alarm catches it, the request ends
\* with 500
CreateAlarmFails(r) ==
    /\ treq[r].pc = "create"
    /\ Finish(r, 500, [error |-> "db failure"])
    /\ UNCHANGED <<settings, kv_idem, kv_rate, alarms, jobs, outsideTrigger>>

\* _send_notifications: enqueue_job raises (the queue is not reachable);
\* enqueue_alarm_created swallows it, publish_alarm_state_changed is called
\* bare and the request ends with 500.  The failure may begin between the two.
SendNotificationsFails(r) ==
    /\ treq[r].pc = "enqueue"
    /\ \E created_ok \in BOOLEAN :
          jobs' = IF created_ok
                  THEN Append(jobs, Job("alarm.created", treq[r].alarm_id, r))
                  ELSE jobs
    /\ Finish(r, 500, [error |-> "queue failure"])
    /\ UNCHANGED <<settings, kv_idem, kv_rate, alarms, outsideTrigger>>

FaultStart(r) == TriggerStartFrom(r, Tokens, {0})

FaultNext ==
    \E r \in Reqs : \/ FaultStart(r)
                    \/ TriggerSteps(r)
                    \/ CreateAlarmFails(r)
                    \/ SendNotificationsFails(r)

SpecTriggerFault == TriggerInit /\ [][FaultNext]_vars

\* The same pipeline started with a foreign value under one idempotency key
\* of the shared KV store (the case check_idempotency guards against)
StaleValues == {Garbage, UnknownId}

StaleInit ==
    /\ settings \in [rate_limit_per_minute : 1..MaxRate, simulation_enabled : {FALSE},
                       admin_api_key : {"secret"},
                       yelk_ip_allowlist : {{}}, trusted_proxy_cidrs : {{}},
                       sendxms_enabled : {TRUE}, signal_enabled : {TRUE},
                       webhook_enabled : {FALSE}]
    /\ \E v \in StaleValues :
          kv_idem = [k \in IdemKeys |-> IF k = <<"tokA", 0>> THEN v ELSE NoId]
    /\ kv_rate = [k \in RateKeys |-> 0]
    /\ alarms = <<>>
    /\ jobs = <<>>
    /\ treq = [r \in Reqs |-> IdleReq]
    /\ sess = <<>>
    /\ clock = 1
    /\ bulk = <<>>
    /\ NoWorker
    /\ pager = <<>>

StaleNext ==
    \/ TriggerNext
    \/ \E r \in Reqs : IdemDeleteInvalid(r)

SpecTriggerStale == StaleInit /\ [][StaleNext]_vars

(***************************************************************************)
(* Claims about the trigger pipeline (checked under SpecTrigger).          *)
(***************************************************************************)
AlarmsOf(t, b) == {a \in DOMAIN alarms : alarms[a].meta.idempotency = <<t, b>>}
CreatedJobs(id) == {i \in DOMAIN jobs : jobs[i].event_type = "alarm.created"
                                        /\ jobs[i].alarm_id = id}
JobsBy(r) == {i \in DOMAIN jobs : jobs[i].by = r}
Finishes(r) == treq[r].pc # "done" /\ treq'[r].pc = "done"

\* C2: for every device token and 10-second bucket at most one alarm row is
\* ever created from that pair, whatever the interleaving of the requests
C2_AtMostOneAlarmPerBucket ==
    \A t \in Tokens, b \in Buckets : Cardinality(AlarmsOf(t, b)) <= 1

CreatedIn(t, m) == {r \in Reqs : treq[r].created /\ treq[r].token = t /\ treq[r].minute = m}

C5_RateLimitBoundsCreation ==
    \A t \in Tokens, b \in Buckets :
        Cardinality(CreatedIn(t, minute_bucket(b))) <= settings.rate_limit_per_minute

C5_Witness ==
    \E r1, r2 \in Reqs :
        /\ r1 # r2 /\ treq[r1].token = treq[r2].token /\ treq[r1].minute = treq[r2].minute
        /\ treq[r1].created /\ treq[r2].pc = "done" /\ treq[r2].code = 429
        /\ Cardinality(CreatedIn(treq[r1].token, treq[r1].minute)) = settings.rate_limit_per_minute

\* C10: a trigger whose rate-limit counter exceeds rate_limit_per_minute ends
\* with 429, has created no alarm row and enqueued no job, and at its return
\* the idempotency key of its (token, bucket) is absent
C10_RateLimitedRejected ==
    [][\A r \in Reqs :
          /\ (Finishes(r) /\ treq'[r].rl_val > settings.rate_limit_per_minute)
               => /\ treq'[r].code = 429
                  /\ ~treq'[r].created
                  /\ JobsBy(r)' = {}
                  /\ kv_idem'[IdemKey(r)] = NoId
          /\ (Finishes(r) /\ treq'[r].code = 429)
               => treq'[r].rl_val > settings.rate_limit_per_minute]_vars

C10_Witness ==
    \E r \in Reqs : /\ treq[r].pc = "done" /\ treq[r].code = 429
                     /\ treq[r].rl_val > settings.rate_limit_per_minute
                     /\ treq[r].reserved
                     /\ kv_idem[IdemKey(r)] = NoId

(***************************************************************************)
(* Claims about device resolution (checked under SpecTriggerDev).          *)
(***************************************************************************)
UnknownToken(r) == treq[r].token \notin DOMAIN Devices
UnboundDevice(r) ==
    /\ treq[r].token \in DOMAIN Devices
    /\ Devices[treq[r].token].person_id = None \/ Devices[treq[r].token].room_id = None
Returns(r) == treq[r].pc # "done" /\ treq'[r].pc = "done"
PassedRateLimit(r) ==
    treq[r].rl_val > 0 /\ treq[r].rl_val <= settings.rate_limit_per_minute

\* C11 as stated: every trigger whose token matches no device ends with 404
\* and every trigger of a device without person or room with 409
C11_AlwaysRejectedByDevice ==
    \A r \in Reqs :
        treq[r].pc = "done" =>
            /\ UnknownToken(r) => treq[r].code = 404
            /\ UnboundDevice(r) => treq[r].code = 409

\* C11: a trigger that is within the rate limit and whose token matches no
\* device returns 404, one whose device lacks the person or the room returns
\* 409; the returning step leaves the idempotency key absent, and the request
\* has created no alarm row and enqueued no job
C11_DeviceRejected ==
    [][\A r \in Reqs :
          (Returns(r) /\ PassedRateLimit(r) /\ (UnknownToken(r) \/ UnboundDevice(r)))
          => /\ treq'[r].code = IF UnknownToken(r) THEN 404 ELSE 409
             /\ kv_idem'[IdemKey(r)] = NoId
             /\ ~treq'[r].created
             /\ alarms' = alarms
             /\ jobs' = jobs
             /\ \A k \in DOMAIN jobs : jobs[k].by # r]_vars

C11_Witness ==
    \E r1, r2 \in Reqs :
        /\ treq[r1].pc = "done" /\ treq[r1].token = "tokUnknown" /\ treq[r1].code = 404
        /\ treq[r2].pc = "done" /\ treq[r2].token = "tokNoPerson" /\ treq[r2].code = 409
        /\ alarms = <<>> /\ jobs = <<>>
        /\ \A k \in IdemKeys : kv_idem[k] = NoId

\* the requests of a rate key that have run check_rate_limit
Counted(key) == {r \in Reqs : treq[r].pc # "idle" /\ RateKey(r) = key /\ treq[r].rl_val > 0}

\* C25: a trigger answered as a duplicate has not touched the rate-limit
\* counter of its token: the counter of a (token, minute) counts exactly the
\* requests that were not answered as duplicates and reached the rate limit
\* check, and the step that answers a duplicate leaves every counter as it is
C25_DuplicateNotCounted ==
    /\ [](\A r \in Reqs : (treq[r].pc = "done" /\ treq[r].duplicate) => treq[r].rl_val = 0)
    /\ [](\A key \in RateKeys : kv_rate[key] = Cardinality(Counted(key)))
    /\ [][\A r \in Reqs : (Finishes(r) /\ treq'[r].duplicate) => kv_rate' = kv_rate]_vars

\* with a limit of one per minute, the second request of the same bucket is
\* answered as a duplicate with the counter still at one
C25_Witness ==
    /\ settings.rate_limit_per_minute = 1
    /\ treq[1].pc = "done" /\ treq[1].code = 200 /\ ~treq[1].duplicate
    /\ treq[2].pc = "done" /\ treq[2].code = 200 /\ treq[2].duplicate
    /\ IdemKey(1) = IdemKey(2)
    /\ kv_rate[RateKey(2)] = 1

\* the request lost the set-if-absent race and took the id it read back
LostReservation(r) == treq[r].alarm_id # NoId /\ ~treq[r].reserved

\* C27: a request that loses the reservation race to a concurrent request of
\* the same (token, bucket) returns success with the winner's alarm id and
\* creates no alarm row of its own (unless the rate limit or the device
\* lookup rejects it)
C27_LoserObservesWinner ==
    \A r \in Reqs :
        ( /\ treq[r].pc = "done"
          /\ LostReservation(r)
          /\ treq[r].code \notin {404, 409, 429} )
        => /\ treq[r].code = 200
           /\ treq[r].out_id = treq[r].alarm_id
           /\ ~treq[r].created

\* the peer of the request lies in one of the trusted-proxy networks
PeerInTrustedNet(r) ==
    \E net \in settings.trusted_proxy_cidrs : treq[r].peer_ip \in net

Arrived(r) == treq[r].pc # "idle"
IpDenied(r) == treq[r].code = 403

\* C21 as stated: for a peer outside the trusted-proxy networks the client IP
\* of the allowlist decision is the peer address, and two requests that differ
\* only in X-Forwarded-For get the same allow / deny outcome
C21_ClientIpIsPeer ==
    /\ \A r \in Reqs : (Arrived(r) /\ ~PeerInTrustedNet(r))
                            => treq[r].client_ip = treq[r].peer_ip
    /\ \A r1, r2 \in Reqs :
          ( /\ Arrived(r1) /\ Arrived(r2)
            /\ ~PeerInTrustedNet(r1)
            /\ treq[r1].peer_ip = treq[r2].peer_ip )
          => (IpDenied(r1) <=> IpDenied(r2))

\* C21: for a peer outside the trusted-proxy networks the client IP of the
\* allowlist decision is the peer address if that is an IP address and
\* 127.0.0.1 if it is not; it never depends on X-Forwarded-For, so two
\* requests that differ only in that header get the same allow / deny outcome
C21_ForwardedForIgnored ==
    /\ \A r \in Reqs : (Arrived(r) /\ ~PeerInTrustedNet(r))
                            => treq[r].client_ip = IF treq[r].peer_ip \in ValidIps
                                                   THEN treq[r].peer_ip ELSE Loopback
    /\ \A r1, r2 \in Reqs :
          ( /\ Arrived(r1) /\ Arrived(r2)
            /\ ~PeerInTrustedNet(r1)
            /\ treq[r1].peer_ip = treq[r2].peer_ip )
          => (IpDenied(r1) <=> IpDenied(r2))

\* with a trusted proxy and an allowlist configured, two requests from the
\* same address outside the proxy network, one of them claiming the phone's
\* address in X-Forwarded-For, are both denied
C21_Witness ==
    /\ settings.trusted_proxy_cidrs # {} /\ settings.yelk_ip_allowlist # {}
    /\ treq[1].pc = "done" /\ treq[2].pc = "done"
    /\ treq[1].peer_ip = OtherIp /\ treq[2].peer_ip = OtherIp
    /\ treq[1].forwarded = <<>> /\ treq[2].forwarded = <<PhoneIp>>
    /\ IpDenied(1) /\ IpDenied(2)

\* the address the allowlist decision was made for lies in no allowed network
OutsideAllowlist(r) ==
    /\ settings.yelk_ip_allowlist # {}
    /\ ~\E net \in settings.yelk_ip_allowlist : treq[r].client_ip \in net

\* C33: a trigger from an address outside the configured allowlist
\* (simulation mode off) is rejected with 403 on arrival; the rejecting step
\* changes neither the idempotency keys nor the rate-limit counters nor the
\* alarms table nor the queue, and the request holds no reservation, has
\* created no row and has enqueued no job
C33_DeniedLeavesNoTrace ==
    /\ [](\A r \in Reqs :
            (Arrived(r) /\ ~settings.simulation_enabled /\ OutsideAllowlist(r))
                => /\ treq[r].pc = "done" /\ treq[r].code = 403
                   /\ ~treq[r].reserved /\ ~treq[r].created
                   /\ treq[r].alarm_id = NoId
                   /\ \A i \in DOMAIN jobs : jobs[i].by # r)
    /\ [][\A r \in Reqs :
            (treq[r].pc = "idle" /\ treq'[r].code = 403)
                => UNCHANGED <<kv_idem, kv_rate, alarms, jobs>>]_vars

\* a request from outside the allowlist was rejected, and a later request with
\* the same token in the same bucket from the phone created the alarm
C33_Witness ==
    /\ settings.yelk_ip_allowlist # {}
    /\ treq[1].pc = "done" /\ treq[1].code = 403 /\ treq[1].peer_ip = OtherIp
    /\ treq[2].pc = "done" /\ treq[2].created
    /\ treq[2].token = treq[1].token /\ treq[2].bucket = treq[1].bucket
    /\ kv_rate[RateKey(2)] = 1

\* C18: a request that reserved the idempotency key and ends in a failure
\* (an error response or an exception) leaves the key of its (token, bucket)
\* released when it returns
C18_KeyReleasedOnFailure ==
    [][\A r \in Reqs :
          (Finishes(r) /\ treq[r].reserved /\ treq'[r].code >= 400)
             => kv_idem'[IdemKey(r)] = NoId]_vars

\* C18 for the failures process_trigger turns into an error result itself
\* (429 of the rate limit, 404 / 409 of the device lookup)
C18_KeyReleasedOnErrorResult ==
    [][\A r \in Reqs :
          (Finishes(r) /\ treq[r].reserved /\ treq'[r].code \in {404, 409, 429})
             => kv_idem'[IdemKey(r)] = NoId]_vars

\* C19: in simulation mode no trigger request is answered with 429
C19_SimulationNeverRateLimited ==
    \A r \in Reqs :
        (settings.simulation_enabled /\ treq[r].pc = "done") => treq[r].code # 429

\* request r takes the step, and it wrote the value under key k itself with
\* the set-if-absent of reserve_alarm_id
OwnReservation(r, k) ==
    /\ treq'[r] # treq[r]
    /\ IdemKey(r) = k
    /\ treq[r].reserved /\ kv_idem[k] = treq[r].alarm_id

\* C36: a step that deletes an idempotency key holding an id is taken by the
\* request that wrote that id with set-if-absent; no request removes the
\* reservation another request of the same (token, bucket) holds
C36_DeletesOwnReservationOnly ==
    [][\A k \in IdemKeys :
          (kv_idem[k] \in AlarmIds /\ kv_idem'[k] = NoId)
             => \E r \in Reqs : OwnReservation(r, k)]_vars

\* no request of the (token, bucket) of alarm a is in flight, and a retry in
\* that bucket has been answered with the id of a
RetriesFinished(a) ==
    /\ \A r \in Reqs :
          InFlight(r) => <<treq[r].token, treq[r].bucket>> # alarms[a].meta.idempotency
    /\ \E r \in Reqs :
          treq[r].pc = "done" /\ treq[r].duplicate /\ treq[r].out_id = a

\* C38: once the requests of its (token, bucket) have finished, a retry of
\* the device in the same bucket among them, every committed alarm has a
\* "created" job in the queue, also after a failed enqueue attempt
C38_CommittedAlarmHasCreatedJob ==
    \A a \in DOMAIN alarms : RetriesFinished(a) => CreatedJobs(a) # {}

(***************************************************************************)
(* Claims about a stale idempotency key (checked under SpecTriggerStale).  *)
(***************************************************************************)
\* the value request r read under its key was no UUID or the id of no alarm,
\* and no other request of its (token, bucket) was in flight together with it
MetStaleKey(r) == treq[r].existing \in StaleValues /\ ~treq[r].same_key

MaxSess == 3         \* state-changing requests issued

Sessions == 1..MaxSess
LifeAlarmIds == {1}             \* the alarms in the table
Notes == {None, "note"}
SingleKinds == {"ack_page", "ack", "resolve", "cancel"}
AckKinds == {"ack_page", "ack"}

\* _ALLOWED_TRANSITIONS
allowed_resolved_reopens ==
    [st \in AlarmStatus |->
        CASE st = TRIGGERED -> {ACKNOWLEDGED, RESOLVED, CANCELLED}
          [] st = ACKNOWLEDGED -> {RESOLVED, CANCELLED}
          [] st = RESOLVED -> {CANCELLED}
          [] OTHER -> {}]
_ALLOWED_TRANSITIONS ==
    [st \in AlarmStatus |->
        CASE st = TRIGGERED -> {ACKNOWLEDGED, RESOLVED, CANCELLED}
          [] st = ACKNOWLEDGED -> {RESOLVED, CANCELLED}
          [] st = RESOLVED -> {}
          [] st = CANCELLED -> {}]

\* _merge_meta_note: alarm.meta = {**(alarm.meta or {}), key: note} if note
_merge_meta_note(alarm, key, note) ==
    IF note # None
    THEN [alarm EXCEPT !.meta =
            [k \in DOMAIN alarm.meta \cup {key} |-> IF k = key THEN note ELSE alarm.meta[k]]]
    ELSE alarm

\* acknowledge_alarm: the guard "alarm.status != TRIGGERED: return False"
ack_guard_not_resolved(alarm) == alarm.status \in {TRIGGERED, ACKNOWLEDGED}
ack_guard(alarm) == alarm.status = TRIGGERED

\* acknowledge_alarm: the returned flag and the alarm object after the call
acknowledge_alarm(alarm, acked_by, note, now) ==
    IF ~ack_guard(alarm)
    THEN [changed |-> FALSE, conflict |-> FALSE, alarm |-> alarm]
    ELSE [changed |-> TRUE, conflict |-> FALSE,
          alarm |-> _merge_meta_note([alarm EXCEPT !.status = ACKNOWLEDGED,
                                                   !.acked_at = now,
                                                   !.acked_by = acked_by],
                                     "ack_note", note)]

\* transition_alarm: "if current == target_status: return False"
same_status_never(current, target_status) == FALSE
same_status(current, target_status) == current = target_status

\* transition_alarm: "if target_status not in allowed: raise HTTPException(409)"
not_allowed_never(current, target_status) == FALSE
not_allowed(current, target_status) == target_status \notin _ALLOWED_TRANSITIONS[current]

\* transition_alarm: flag, 409 Conflict, and the alarm object after the call
transition_alarm(alarm, target_status, actor, note, now) ==
    IF same_status(alarm.status, target_status)
    THEN [changed |-> FALSE, conflict |-> FALSE, alarm |-> alarm]
    ELSE IF not_allowed(alarm.status, target_status)
    THEN [changed |-> FALSE, conflict |-> TRUE, alarm |-> alarm]
    ELSE [changed |-> TRUE, conflict |-> FALSE,
          alarm |->
            IF target_status = RESOLVED
            THEN _merge_meta_note([alarm EXCEPT !.status = target_status,
                                                !.resolved_at = now,
                                                !.resolved_by = actor],
                                  "resolve_note", note)
            ELSE IF target_status = CANCELLED
            THEN _merge_meta_note([alarm EXCEPT !.status = target_status,
                                                !.cancelled_at = now,
                                                !.cancelled_by = actor],
                                  "cancel_note", note)
            ELSE [alarm EXCEPT !.status = target_status]]

\* session.commit(): UPDATE alarms SET <the modified columns> WHERE id = ...
commit_status_only(row, loaded, modified) == [row EXCEPT !.status = modified.status]
commit(row, loaded, modified) ==
    [f \in DOMAIN row |-> IF modified[f] # loaded[f] THEN modified[f] ELSE row[f]]

TargetOf(kind) ==
    CASE kind \in {"ack_page", "ack", "bulk_ack"} -> ACKNOWLEDGED
      [] kind \in {"resolve", "bulk_resolve"} -> RESOLVED
      [] OTHER -> CANCELLED

ActorOf(kind) == IF kind = "ack_page" THEN "responder" ELSE "operator"

\* the call a request makes on the state machine (is_ack selects acknowledge)
process(kind, alarm, note, now) ==
    IF kind \in {"ack_page", "ack", "bulk_ack"}
    THEN acknowledge_alarm(alarm, ActorOf(kind), note, now)
    ELSE transition_alarm(alarm, TargetOf(kind), ActorOf(kind), note, now)

\* enqueue_alarm_acked_event (acknowledgments only), enqueue_alarm_state_changed_event
after_change_state_only(kind, id, by) == <<Job("alarm.state_changed", id, by)>>
after_change(kind, id, by) ==
    (IF kind \in {"ack_page", "ack", "bulk_ack"}
     THEN <<Job("alarm.acknowledged", id, by)>> ELSE <<>>)
    \o <<Job("alarm.state_changed", id, by)>>

IdleSess == [pc |-> "idle", kind |-> None, id |-> NoId, note |-> None,
             by_id |-> <<>>, seen |-> None, code |-> 0, changed |-> FALSE,
             overlap |-> FALSE, x_admin_key |-> None]

Busy(s) == sess[s].pc \notin {"idle", "done"}

LifeInitFor(admin_api_keys) ==
    /\ settings \in [rate_limit_per_minute : {1}, simulation_enabled : {FALSE},
                       admin_api_key : admin_api_keys,
                       yelk_ip_allowlist : {{}}, trusted_proxy_cidrs : {{}},
                       sendxms_enabled : {TRUE}, signal_enabled : {TRUE},
                       webhook_enabled : {FALSE}]
    /\ kv_idem = [k \in IdemKeys |-> NoId]
    /\ kv_rate = [k \in RateKeys |-> 0]
    /\ treq = [r \in Reqs |-> IdleReq]
    /\ alarms = [a \in LifeAlarmIds |-> NewAlarm(a, "tokA", a)]
    /\ jobs = <<>>
    /\ sess = [s \in Sessions |-> IdleSess]
    /\ clock = 1
    /\ bulk = <<>>
    /\ NoWorker
    /\ pager = <<>>

LifeInit == LifeInitFor({"secret"})

\* a request arrives (ack_submit / ack_alarm_api / resolve_alarm_api /
\* cancel_alarm_api) and its session loads the row: get_alarm_by_ack_token /
\* get_alarm_or_404
LoadRow(s, kinds, x_admin_key) ==
    /\ sess[s].pc = "idle"
    /\ \A q \in Sessions : q < s => sess[q].pc # "idle"
    /\ \E kind \in kinds, id \in LifeAlarmIds \cup {UnknownId}, note \in Notes :
          LET concurrent == \E q \in Sessions : Busy(q)
              found == id \in DOMAIN alarms
          IN
          sess' = [q \in Sessions |->
                     IF q = s
                     THEN [IdleSess EXCEPT !.kind = kind, !.id = id, !.note = note,
                                           !.x_admin_key = x_admin_key,
                                           !.overlap = concurrent,
                                           !.by_id = IF found THEN id :> alarms[id] ELSE <<>>,
                                           !.seen = IF found THEN alarms[id].status ELSE None,
                                           !.code = IF found THEN 0 ELSE 404,
                                           !.pc = IF found THEN "apply" ELSE "done"]
                     ELSE IF Busy(q) THEN [sess[q] EXCEPT !.overlap = TRUE]
                     ELSE sess[q]]

LifeLoad(s) ==
    /\ LoadRow(s, SingleKinds, None)
    /\ UNCHANGED <<alarms, jobs, clock, outsideLife>>

\* _execute_single_state_transition / ack_submit after the load: the state
\* machine call with its commit, then the events of a change
LifeApply(s) ==
    /\ sess[s].pc = "apply"
    /\ LET id == sess[s].id
           kind == sess[s].kind
           loaded == sess[s].by_id[id]
           res == process(kind, loaded, sess[s].note, clock)
       IN
         IF res.conflict
         THEN /\ sess' = [sess EXCEPT ![s].code = 409, ![s].by_id = <<>>, ![s].pc = "done"]
              /\ UNCHANGED <<alarms, jobs, clock>>
         ELSE /\ sess' = [sess EXCEPT ![s].code = IF kind = "ack_page" THEN 200 ELSE 204,
                                      ![s].changed = res.changed,
                                      ![s].by_id = <<>>,
                                      ![s].pc = "done"]
              /\ IF res.changed
                 THEN /\ alarms' = [alarms EXCEPT ![id] = commit(alarms[id], loaded, res.alarm)]
                      /\ jobs' = jobs \o after_change(kind, id, s)
                      /\ clock' = clock + 1
                 ELSE UNCHANGED <<alarms, jobs, clock>>
    /\ UNCHANGED outsideLife

LifeNext ==
    \E s \in Sessions :
        \/ LifeLoad(s)
        \/ LifeApply(s)

SpecLife == LifeInit /\ [][LifeNext]_vars

(***************************************************************************)
(* Claims about the state machine (checked under SpecLife).                *)
(***************************************************************************)
Sequential == \A s \in Sessions : ~sess[s].overlap
Applies(s) == sess[s].pc = "apply" /\ sess'[s].pc = "done"
AckedJobs(a) == {i \in DOMAIN jobs : jobs[i].event_type = "alarm.acknowledged"
                                      /\ jobs[i].alarm_id = a}
StateChangedJobs(a) == {i \in DOMAIN jobs : jobs[i].event_type = "alarm.state_changed"
                                             /\ jobs[i].alarm_id = a}

\* C1: with the operations applied one after another, the stored status of an
\* alarm changes only along TRIGGERED -> {ACKNOWLEDGED, RESOLVED, CANCELLED}
\* and ACKNOWLEDGED -> {RESOLVED, CANCELLED}; RESOLVED and CANCELLED never change
C1_AllowedEdgesOnly ==
    [][Sequential' =>
         \A a \in LifeAlarmIds :
            alarms'[a].status # alarms[a].status =>
               \/ /\ alarms[a].status = TRIGGERED
                  /\ alarms'[a].status \in {ACKNOWLEDGED, RESOLVED, CANCELLED}
               \/ /\ alarms[a].status = ACKNOWLEDGED
                  /\ alarms'[a].status \in {RESOLVED, CANCELLED}]_vars

C1_Witness ==
    /\ Sequential
    /\ \E a \in LifeAlarmIds, s1, s2, s3 \in Sessions :
          /\ s1 < s2 /\ s2 < s3
          /\ \A s \in {s1, s2, s3} : sess[s].pc = "done" /\ sess[s].id = a
          /\ sess[s1].kind \in AckKinds /\ sess[s1].changed
          /\ sess[s2].kind = "resolve" /\ sess[s2].changed
          /\ sess[s3].kind = "cancel" /\ sess[s3].code = 409
          /\ alarms[a].status = RESOLVED

\* C6: whatever the interleaving of the acknowledgment requests on one alarm,
\* at most one of them reports changed=true and at most one "acked" event is
\* enqueued for the alarm
C6_SingleAckTransition ==
    \A a \in LifeAlarmIds :
        /\ Cardinality({s \in Sessions : /\ sess[s].kind \in AckKinds
                                         /\ sess[s].id = a
                                         /\ sess[s].changed}) <= 1
        /\ Cardinality(AckedJobs(a)) <= 1

TransitionReturns(s) ==
    /\ sess[s].pc = "apply" /\ sess'[s].pc = "done"
    /\ sess[s].kind \in {"resolve", "cancel"}

\* C12: a resolve / cancel request that finds the alarm in the other terminal
\* status (cancel after resolve, resolve after cancel) returns 409, writes no
\* column of the alarm and enqueues no event
C12_ForbiddenTransitionRejected ==
    [][\A s \in Sessions :
          (/\ TransitionReturns(s)
           /\ sess[s].seen \in {RESOLVED, CANCELLED}
           /\ sess[s].seen # TargetOf(sess[s].kind))
          => /\ sess'[s].code = 409
             /\ ~sess'[s].changed
             /\ alarms' = alarms
             /\ jobs' = jobs]_vars

C12_Witness ==
    \E s \in Sessions, a \in DOMAIN alarms :
        /\ sess[s].pc = "done" /\ sess[s].id = a
        /\ sess[s].kind = "cancel" /\ sess[s].seen = RESOLVED
        /\ sess[s].code = 409
        /\ alarms[a].status = RESOLVED /\ alarms[a].cancelled_at = NoTime

\* C13: a resolve / cancel request that finds the alarm already in its target
\* status returns 204 with changed = false, writes no column of the alarm
\* (the timestamp and actor of the first transition stay) and enqueues no event
C13_SameStatusNoOp ==
    [][\A s \in Sessions :
          (TransitionReturns(s) /\ sess[s].seen = TargetOf(sess[s].kind))
          => /\ sess'[s].code = 204
             /\ ~sess'[s].changed
             /\ alarms' = alarms
             /\ jobs' = jobs]_vars

C13_Witness ==
    \E s \in Sessions, a \in DOMAIN alarms :
        /\ sess[s].pc = "done" /\ sess[s].id = a
        /\ sess[s].kind = "resolve" /\ sess[s].seen = RESOLVED
        /\ sess[s].code = 204 /\ ~sess[s].changed
        /\ alarms[a].status = RESOLVED
        /\ alarms[a].resolved_at # NoTime
        /\ \E first \in Sessions :
              /\ first < s /\ sess[first].pc = "done" /\ sess[first].id = a
              /\ sess[first].kind = "resolve" /\ sess[first].changed

StampOf(row, st) ==
    CASE st = ACKNOWLEDGED -> <<row.acked_at, row.acked_by>>
      [] st = RESOLVED -> <<row.resolved_at, row.resolved_by>>
      [] st = CANCELLED -> <<row.cancelled_at, row.cancelled_by>>
      [] OTHER -> <<NoTime, None>>

C15_MetaKeysKept ==
    [][\A a \in DOMAIN alarms :
          DOMAIN alarms[a].meta \subseteq DOMAIN alarms'[a].meta]_vars

\* the same with the requests applied one after another
C15_MetaKeysKeptSequential ==
    [][Sequential' =>
          \A a \in DOMAIN alarms :
              DOMAIN alarms[a].meta \subseteq DOMAIN alarms'[a].meta]_vars

\* C26: also with requests running concurrently, every status change
\* committed to an alarm is an allowed transition from the status committed
\* immediately before it, and a committed RESOLVED or CANCELLED status is
\* never replaced by a different one
C26_CommitsSerialized ==
    [][\A a \in DOMAIN alarms :
          alarms'[a].status # alarms[a].status =>
              /\ alarms'[a].status \in _ALLOWED_TRANSITIONS[alarms[a].status]
              /\ alarms[a].status \notin {RESOLVED, CANCELLED}]_vars

\* the jobs a step appends to the queue
Enqueued == SubSeq(jobs', Len(jobs) + 1, Len(jobs'))
EnqueuedOf(event_type, id) ==
    {k \in DOMAIN Enqueued : Enqueued[k].event_type = event_type
                             /\ Enqueued[k].alarm_id = id}

AlarmAttributes ==
    {"id", "status", "severity", "acked_at", "acked_by", "resolved_at", "resolved_by",
     "cancelled_at", "cancelled_by", "meta"}

\* delete_alarm: get_alarm_or_404, then "if alarm.deleted_at is not None";
\* reading an attribute the instance does not have raises AttributeError and
\* the request is answered 500 before anything is written
delete_alarm(s) ==
    /\ sess[s].pc = "idle"
    /\ \A q \in Sessions : q < s => sess[q].pc # "idle"
    /\ \E id \in LifeAlarmIds \cup {UnknownId} :
          LET code == IF id \notin DOMAIN alarms THEN 404
                      ELSE IF "deleted_at" \notin AlarmAttributes THEN 500
                      ELSE IF alarms[id].deleted_at # NoTime THEN 409
                      ELSE 204
          IN
          /\ sess' = [sess EXCEPT ![s] = [IdleSess EXCEPT !.pc = "done", !.kind = "delete",
                                                         !.id = id, !.code = code]]
          /\ IF code = 204
             THEN /\ alarms' = [alarms EXCEPT ![id].deleted_at = clock,
                                              ![id].deleted_by = "admin"]
                  /\ clock' = clock + 1
             ELSE UNCHANGED <<alarms, clock>>
    /\ UNCHANGED <<jobs, outsideLife>>

DeleteNext ==
    \E s \in Sessions :
        \/ delete_alarm(s)
        \/ (LoadRow(s, {"resolve"}, None) /\ UNCHANGED <<alarms, jobs, clock, outsideLife>>)
        \/ LifeApply(s)

SpecDelete == LifeInit /\ [][DeleteNext]_vars

Deletes(s) == sess[s].pc = "idle" /\ sess'[s].kind = "delete" /\ sess'[s].id \in DOMAIN alarms

\* C22: a DELETE on an alarm that is not deleted yet sets deleted_at and
\* deleted_by in the row and leaves the status as it is; a DELETE on a
\* deleted alarm is answered 409 and leaves deleted_at and deleted_by alone
C22_SoftDeleteOnce ==
    [][\A s \in Sessions : Deletes(s) =>
          LET id == sess'[s].id IN
            IF alarms[id].deleted_at = NoTime
            THEN /\ alarms'[id].deleted_at # NoTime
                 /\ alarms'[id].deleted_by # None
                 /\ alarms'[id].status = alarms[id].status
            ELSE /\ sess'[s].code = 409
                 /\ alarms'[id] = alarms[id]]_vars

(***************************************************************************)
(* The admin key gate (api/deps.py require_admin) in front of the operator *)
(* endpoints: router = APIRouter(prefix="/v1/alarms",                      *)
(* dependencies=[Depends(require_admin)]).                                 *)
(***************************************************************************)
NonAscii == "k<e9>y"     \* stands for a header value with a byte above 0x7f
AdminHeaders == {None, "", "secret", "wrong", NonAscii}
AdminKinds == {"ack", "resolve"}

is_ascii(str) == str # NonAscii

\* secrets.compare_digest on two str: TypeError unless both are ASCII
compare_digest(a, b) ==
    IF ~is_ascii(a) \/ ~is_ascii(b) THEN "TypeError"
    ELSE IF a = b THEN "equal" ELSE "differ"

\* "x_admin_key or ''"
or_empty(x_admin_key) == IF x_admin_key = None THEN "" ELSE x_admin_key

\* "if not settings.admin_api_key"
not_configured(admin_api_key) == admin_api_key = ""

\* require_admin: the status of the response, 0 when the request goes on to
\* its handler; an exception no handler is installed for is answered with 500
require_admin(x_admin_key, admin_api_key) ==
    IF not_configured(admin_api_key) THEN 403
    ELSE LET digest == compare_digest(or_empty(x_admin_key), admin_api_key) IN
         IF digest = "TypeError" THEN 500
         ELSE IF digest = "differ" THEN 401
         ELSE 0

AdminInit == LifeInitFor({"", "secret"})

\* a request to an operator endpoint: the dependency, then the handler's load
AdminRequest(s) ==
    /\ \E x_admin_key \in AdminHeaders :
          LET code == require_admin(x_admin_key, settings.admin_api_key) IN
            IF code = 0
            THEN LoadRow(s, AdminKinds, x_admin_key)
            ELSE /\ sess[s].pc = "idle"
                 /\ \A q \in Sessions : q < s => sess[q].pc # "idle"
                 /\ sess' = [sess EXCEPT ![s] = [IdleSess EXCEPT
                                                   !.pc = "done", !.code = code,
                                                   !.x_admin_key = x_admin_key]]
    /\ UNCHANGED <<alarms, jobs, clock, outsideLife>>

AdminNext ==
    \E s \in Sessions :
        \/ AdminRequest(s)
        \/ LifeApply(s)

SpecAdmin == AdminInit /\ [][AdminNext]_vars

(***************************************************************************)
(* Claims about the admin key gate (checked under SpecAdmin).              *)
(***************************************************************************)
Arrives(s) == sess[s].pc = "idle" /\ sess'[s].pc # "idle"
Admitted(s) == sess'[s].pc = "apply" \/ sess'[s].code = 404

\* C20: with admin_api_key empty every request is answered 403 whatever its
\* X-Admin-Key (also an empty or a missing one); with a key set a request is
\* admitted only if its X-Admin-Key equals the key and is answered 401
\* otherwise; a rejected request changes nothing
C20_AdminKeyGate ==
    [][\A s \in Sessions : Arrives(s) =>
          LET x_admin_key == sess'[s].x_admin_key
              admin_api_key == settings.admin_api_key
          IN
            /\ admin_api_key = "" => sess'[s].code = 403
            /\ admin_api_key # "" =>
                  /\ Admitted(s) => x_admin_key = admin_api_key
                  /\ ~Admitted(s) => sess'[s].code = 401
            /\ ~Admitted(s) =>
                  UNCHANGED <<alarms, jobs, kv_idem, kv_rate, settings, clock>>]_vars

\* C20 for the header values secrets.compare_digest accepts (ASCII only):
\* 403 without a configured key, 401 unless the header equals the key, and
\* nothing changed by a rejected request
C20_AdminKeyGateAscii ==
    [][\A s \in Sessions : (Arrives(s) /\ is_ascii(or_empty(sess'[s].x_admin_key))) =>
          LET x_admin_key == sess'[s].x_admin_key
              admin_api_key == settings.admin_api_key
          IN
            /\ admin_api_key = "" => sess'[s].code = 403
            /\ admin_api_key # "" =>
                  /\ Admitted(s) <=> x_admin_key = admin_api_key
                  /\ ~Admitted(s) => sess'[s].code = 401
            /\ ~Admitted(s) =>
                  UNCHANGED <<alarms, jobs, kv_idem, kv_rate, settings, clock>>]_vars

(***************************************************************************)
(* Bulk transitions: POST /v1/alarms/bulk/{ack,resolve,cancel}             *)
(* (api/routes/alarms.py _execute_bulk_state_transition).                  *)
(***************************************************************************)
MaxBulkLen == 4      \* length of the alarm_ids list of a bulk request

BulkAlarmIds == {1, 2}
BulkKinds == {"bulk_ack", "bulk_resolve", "bulk_cancel"}

RECURSIVE SeqsUpTo(_, _)
SeqsUpTo(S, n) ==
    IF n = 0 THEN {<<>>}
    ELSE LET shorter == SeqsUpTo(S, n - 1) IN
         shorter \cup {Append(q, x) : q \in {q \in shorter : Len(q) = n - 1}, x \in S}

\* the rows single requests leave behind: every status the state machine
\* reaches from a fresh alarm, with the columns its calls wrote
RowsOf(a) ==
    LET fresh == NewAlarm(a, "tokA", a)
        acked == acknowledge_alarm(fresh, "responder", None, 1).alarm
    IN {fresh, acked}
       \cup {transition_alarm(row, target, "operator", None, 2).alarm :
                row \in {fresh, acked}, target \in {RESOLVED, CANCELLED}}

IdleBulk == [pc |-> "idle", kind |-> None, alarm_ids |-> <<>>, note |-> None,
             by_id |-> <<>>, i |-> 1, changed |-> 0, unchanged |-> 0, missing |-> <<>>,
             conflicts |-> 0, requested |-> 0, code |-> 0]

BulkInit ==
    /\ settings \in [rate_limit_per_minute : {1}, simulation_enabled : {FALSE},
                       admin_api_key : {"secret"},
                       yelk_ip_allowlist : {{}}, trusted_proxy_cidrs : {{}},
                       sendxms_enabled : {TRUE}, signal_enabled : {TRUE},
                       webhook_enabled : {FALSE}]
    /\ kv_idem = [k \in IdemKeys |-> NoId]
    /\ kv_rate = [k \in RateKeys |-> 0]
    /\ treq = [r \in Reqs |-> IdleReq]
    /\ \E rows \in [BulkAlarmIds -> UNION {RowsOf(a) : a \in BulkAlarmIds}] :
          /\ \A a \in BulkAlarmIds : rows[a] \in RowsOf(a)
          /\ alarms = rows
    /\ jobs = <<>>
    /\ sess = <<>>
    /\ clock = 3
    /\ bulk = IdleBulk
    /\ NoWorker
    /\ pager = <<>>

\* _execute_bulk_operation: "except HTTPException ... 409: unchanged += 1"
on_conflict_uncounted(b) == [b EXCEPT !.conflicts = @ + 1]
on_conflict_raise(b) ==
    [b EXCEPT !.unchanged = @ + 1, !.conflicts = @ + 1, !.i = Len(b.alarm_ids) + 1]
on_conflict(b) == [b EXCEPT !.unchanged = @ + 1, !.conflicts = @ + 1]

\* _execute_bulk_operation: "if alarm is None: missing.append(alarm_id)"
on_missing(b, alarm_id) == [b EXCEPT !.missing = Append(@, alarm_id)]

\* the request arrives and _execute_bulk_operation loads the rows of its ids:
\* select(Alarm).where(Alarm.id.in_(alarm_ids)); by_id = {alarm.id: alarm}
BulkLoad ==
    /\ bulk.pc = "idle"
    /\ \E kind \in BulkKinds, ids \in SeqsUpTo(BulkAlarmIds \cup {UnknownId}, MaxBulkLen),
          note \in Notes :
          bulk' = [IdleBulk EXCEPT !.pc = "loop", !.kind = kind, !.alarm_ids = ids,
                      !.note = note,
                      !.by_id = [a \in {ids[k] : k \in DOMAIN ids} \cap DOMAIN alarms
                                    |-> alarms[a]]]
    /\ UNCHANGED <<alarms, jobs, clock, outsideBulk>>

\* one iteration of "for alarm_id in alarm_ids": process_alarm with its commit,
\* and after_change for a changed alarm
BulkStep ==
    /\ bulk.pc = "loop"
    /\ bulk.i <= Len(bulk.alarm_ids)
    /\ LET alarm_id == bulk.alarm_ids[bulk.i]
           next == [bulk EXCEPT !.i = @ + 1]
       IN
         IF alarm_id \notin DOMAIN bulk.by_id
         THEN /\ bulk' = on_missing(next, alarm_id)
              /\ UNCHANGED <<alarms, jobs, clock>>
         ELSE LET alarm == bulk.by_id[alarm_id]
                  res == process(bulk.kind, alarm, bulk.note, clock)
              IN
                IF res.conflict
                THEN /\ bulk' = on_conflict(next)
                     /\ UNCHANGED <<alarms, jobs, clock>>
                ELSE IF res.changed
                THEN /\ bulk' = [next EXCEPT !.changed = @ + 1,
                                             !.by_id[alarm_id] = res.alarm]
                     /\ alarms' = [alarms EXCEPT ![alarm_id] =
                                      commit(alarms[alarm_id], alarm, res.alarm)]
                     /\ jobs' = jobs \o after_change(bulk.kind, alarm_id, "bulk")
                     /\ clock' = clock + 1
                ELSE /\ bulk' = [next EXCEPT !.unchanged = @ + 1]
                     /\ UNCHANGED <<alarms, jobs, clock>>
    /\ UNCHANGED outsideBulk

\* return BulkOperationOut(requested=len(alarm_ids), changed, unchanged, missing)
BulkRespond ==
    /\ bulk.pc = "loop"
    /\ bulk.i > Len(bulk.alarm_ids)
    /\ bulk' = [bulk EXCEPT !.pc = "done", !.requested = Len(bulk.alarm_ids), !.code = 200]
    /\ UNCHANGED <<alarms, jobs, clock, outsideBulk>>

BulkNext == BulkLoad \/ BulkStep \/ BulkRespond

SpecBulk == BulkInit /\ [][BulkNext]_vars

(***************************************************************************)
(* Claims about bulk transitions (checked under SpecBulk).                 *)
(***************************************************************************)
\* C8: the response of every bulk request satisfies
\* requested = changed + unchanged + len(missing), also for lists with
\* repeated ids, unknown ids and forbidden transitions
C8_BulkCountsAddUp ==
    bulk.pc = "done" =>
        bulk.requested = bulk.changed + bulk.unchanged + Len(bulk.missing)

C8_Witness ==
    /\ bulk.pc = "done"
    /\ bulk.conflicts > 0
    /\ Len(bulk.missing) > 0
    /\ bulk.changed > 0
    /\ \E j, k \in DOMAIN bulk.alarm_ids : j # k /\ bulk.alarm_ids[j] = bulk.alarm_ids[k]

BulkJobs(event_type) ==
    {k \in DOMAIN jobs : jobs[k].event_type = event_type /\ jobs[k].by = "bulk"}

EscSessions == {1}

\* seed data: escalation_targets and escalation_steps of the policy "default"
EscalationTargets ==
    [t_sms    |-> [channel |-> "sms",    enabled |-> TRUE],
     t_signal |-> [channel |-> "signal", enabled |-> TRUE],
     t_off    |-> [channel |-> "sms",    enabled |-> FALSE],
     t_mail   |-> [channel |-> "email",  enabled |-> TRUE],
     t_chat   |-> [channel |-> "group-chat", enabled |-> TRUE],
     t_hook   |-> [channel |-> "webhook", enabled |-> TRUE]]

EscalationSteps ==
    {[step_no |-> 0, after_seconds |-> 0,   target_id |-> "t_sms"],
     [step_no |-> 1, after_seconds |-> 60,  target_id |-> "t_signal"],
     [step_no |-> 1, after_seconds |-> 60,  target_id |-> "t_sms"],
     [step_no |-> 1, after_seconds |-> 60,  target_id |-> "t_off"],
     [step_no |-> 2, after_seconds |-> 120, target_id |-> "t_mail"],
     [step_no |-> 2, after_seconds |-> 120, target_id |-> "t_chat"],
     [step_no |-> 2, after_seconds |-> 120, target_id |-> "t_sms"]}

\* ZammadClient.enabled(): api_token and base_url are set (no token here)
ZammadEnabled == FALSE

\* the order in which the rows of a step come back from the query
TargetOrder == <<"t_signal", "t_mail", "t_chat", "t_sms", "t_off", "t_hook">>

\* NotificationService._get_escalation_targets
_get_escalation_targets(step_no) ==
    SelectSeq(TargetOrder,
              LAMBDA t : /\ \E st \in escalation_steps :
                               st.step_no = step_no /\ st.target_id = t
                         /\ EscalationTargets[t].enabled)

\* NotificationService.get_escalation_schedule
get_escalation_schedule ==
    {<<st.step_no, st.after_seconds>> : st \in {x \in escalation_steps : x.step_no > 0}}

\* WorkerSettings.functions
WorkerFunctions == {"alarm_created", "escalate", "alarm_acked", "alarm_state_changed"}

\* a job enqueued under the name of a function the worker registers
HandlerJob(function, alarm_id) ==
    [function |-> function, event_type |-> None, alarm_id |-> alarm_id, by |-> 0]

\* called: the targets _send_to_channel was called for; sent_all: send
\* returned; attempt: the loop variable of _send_webhook_with_retry
IdleWorker == [pc |-> "idle", fn |-> None, alarm_id |-> NoId, step_no |-> 0,
               seen |-> None, targets |-> <<>>, called |-> <<>>, sent_all |-> FALSE,
               attempt |-> 0, priority |-> 0]

\* services/enrichment_service.py enrich_alarm_context: the names of the
\* person, the room and the site of the alarm (no directory rows here, so
\* the ids, which the model does not carry)
enrich_alarm_context(alarm) ==
    [person_name |-> None, room_label |-> None, site_name |-> None]

\* NotificationService._get_priority_for_severity: priority_map.get(severity, 3)
_get_priority_for_severity(severity) ==
    CASE severity = "P0" -> 3
      [] severity = "P1" -> 2
      [] severity = "P2" -> 2
      [] severity = "P3" -> 1
      [] OTHER -> 3

\* NotificationService._build_notification_payload: "severity =
\* enriched.get("severity", constants.PRIORITY_CRITICAL)"
_build_notification_payload(alarm, enriched, step_no) ==
    LET severity == IF "severity" \in DOMAIN enriched
                    THEN enriched.severity ELSE PRIORITY_CRITICAL
    IN [priority |-> _get_priority_for_severity(severity),
        step_no |-> step_no, alarm_id |-> alarm.id]

Returned(w) == [w EXCEPT !.pc = "idle", !.targets = <<>>, !.sent_all = TRUE]

\* one committed row, and in the queue one job for each undeferred function
\* the worker registers
EscInit ==
    /\ settings \in [rate_limit_per_minute : {1}, simulation_enabled : {FALSE},
                       admin_api_key : {"secret"},
                       yelk_ip_allowlist : {{}}, trusted_proxy_cidrs : {{}},
                       sendxms_enabled : {TRUE}, signal_enabled : {TRUE},
                       webhook_enabled : {FALSE}]
    /\ kv_idem = [k \in IdemKeys |-> NoId]
    /\ kv_rate = [k \in RateKeys |-> 0]
    /\ treq = [r \in Reqs |-> IdleReq]
    /\ alarms = [a \in LifeAlarmIds |-> NewAlarm(a, "tokA", a)]
    /\ jobs = <<HandlerJob("alarm_created", 1), HandlerJob("alarm_state_changed", 1)>>
    /\ sess = [s \in Sessions |-> IdleSess]
    /\ clock = 1
    /\ bulk = <<>>
    /\ worker = IdleWorker
    /\ escalation_steps = EscalationSteps
    /\ http = <<>>
    /\ deferred = {}
    /\ notifications = <<>>
    /\ sent = <<>>
    /\ pager = <<>>

\* escalate: "if alarm.status != AlarmStatus.TRIGGERED: ... return"
still_triggered_or_acked(alarm) == alarm.status \in {TRIGGERED, ACKNOWLEDGED}
still_triggered(alarm) == alarm.status = TRIGGERED

\* alarm_created up to the step-0 fan-out (no ticket: the ticket system is not
\* enabled); the handler reads the row and goes on whatever its status is
alarm_created(alarm_id) ==
    IF alarm_id \notin DOMAIN alarms
    THEN [IdleWorker EXCEPT !.fn = "alarm_created", !.alarm_id = alarm_id]
    ELSE [IdleWorker EXCEPT !.pc = "send", !.fn = "alarm_created",
                            !.alarm_id = alarm_id,
                            !.seen = alarms[alarm_id].status,
                            !.priority = _build_notification_payload(
                                alarms[alarm_id],
                                enrich_alarm_context(alarms[alarm_id]), 0).priority,
                            !.targets = _get_escalation_targets(0)]

\* alarm_state_changed up to the first attempt of _send_webhook_with_retry:
\* it returns at "not webhook_enabled or not webhook_url" (a URL is set
\* whenever the webhook is enabled) and when the alarm does not exist
alarm_state_changed(alarm_id) ==
    IF ~settings.webhook_enabled \/ alarm_id \notin DOMAIN alarms
    THEN [IdleWorker EXCEPT !.fn = "alarm_state_changed", !.alarm_id = alarm_id]
    ELSE [IdleWorker EXCEPT !.pc = "webhook", !.fn = "alarm_state_changed",
                            !.alarm_id = alarm_id, !.attempt = 1]

\* the queue library's worker looks the function name of a job up in
\* WorkerSettings.functions; a name that is not there fails the job
\* ("function not found") and no handler runs.  alarm_acked returns at
\* "not alarm.zammad_ticket_id".
run_job(job) ==
    IF job.function \notin WorkerFunctions
    THEN [IdleWorker EXCEPT !.fn = "not_found", !.alarm_id = job.alarm_id]
    ELSE IF job.function = "alarm_created"
    THEN alarm_created(job.alarm_id)
    ELSE IF job.function = "alarm_state_changed"
    THEN alarm_state_changed(job.alarm_id)
    ELSE [IdleWorker EXCEPT !.fn = job.function, !.alarm_id = job.alarm_id]

\* the worker takes the job at the head of the queue
RunJob ==
    /\ worker.pc = "idle"
    /\ jobs # <<>>
    /\ jobs' = Tail(jobs)
    /\ worker' = run_job(Head(jobs))
    /\ UNCHANGED <<alarms, deferred, notifications, sent, outsideWorker>>

\* a deferred escalate job is run: escalate up to the fan-out of its step
EscalateJob ==
    /\ worker.pc = "idle"
    /\ \E job \in deferred :
          /\ deferred' = deferred \ {job}
          /\ LET started == [IdleWorker EXCEPT !.fn = "escalate",
                                               !.alarm_id = job.alarm_id,
                                               !.step_no = job.step_no]
             IN
               IF job.alarm_id \notin DOMAIN alarms
               THEN worker' = started
               ELSE LET alarm == alarms[job.alarm_id] IN
                    IF ~still_triggered(alarm)
                    THEN worker' = [started EXCEPT !.seen = alarm.status]
                    ELSE worker' = [started EXCEPT !.pc = "send", !.seen = alarm.status,
                                       !.priority = _build_notification_payload(
                                           alarm, enrich_alarm_context(alarm),
                                           job.step_no).priority,
                                       !.targets = _get_escalation_targets(job.step_no)]
    /\ UNCHANGED <<alarms, jobs, notifications, sent, outsideWorker>>

\* _send_to_channel: the channels it routes to an adapter
routed_channels == {"email", "sms", "signal", "webhook"}

\* _send_to_channel: "except Exception: logger.exception(...)", the loop of
\* send goes on with the next target
rest_after_failure_abort(targets, result) == IF result = "error" THEN <<>> ELSE Tail(targets)
rest_after(targets, result) == Tail(targets)

\* the result the channel method logs for an adapter outcome; after a created
\* ticket _send_email_notifications calls _log_notification_result with a
\* ticket_id keyword it does not take, and its except clause logs "error"
\* _send_webhook_notifications awaits client.post and logs "ok": it never
\* looks at the status of the response (no raise_for_status)
logged_result(channel, outcome) ==
    IF channel = "email" THEN "error"
    ELSE IF channel = "webhook" /\ outcome = "status_error" THEN "ok"
    ELSE outcome

\* SendXmsConnector.send_sms and SignalConnector.send_group_message:
\* "if not self.enabled(): return"
adapter_enabled(channel) ==
    CASE channel = "sms" -> settings.sendxms_enabled
      [] channel = "signal" -> settings.signal_enabled
      [] OTHER -> TRUE

\* what an outbound request of a channel can end with: the adapters of sms
\* and signal raise for an error status as for a transport error ("error");
\* the webhook POST raises for a transport error only
request_outcomes(channel) ==
    IF channel = "webhook" THEN {"ok", "status_error", "error"} ELSE {"ok", "error"}

\* the AlarmNotification row of _log_notification_result
NotificationRow(w, target_id, result) ==
    [alarm_id |-> w.alarm_id, channel |-> EscalationTargets[target_id].channel,
     target_id |-> target_id, step_no |-> w.step_no, result |-> result]

\* one iteration of the loop of NotificationService.send: _send_to_channel
\* routes by target.channel; the channel method calls its adapter and
\* _log_notification_result writes the row of the attempt.  A tag outside
\* routed_channels is logged as "unknown_channel" and nothing is written.
SendToChannel ==
    /\ worker.pc = "send"
    /\ worker.targets # <<>>
    /\ LET target_id == Head(worker.targets)
           target == EscalationTargets[target_id]
           step(result) == [worker EXCEPT !.targets = rest_after(@, result),
                                          !.called = Append(@, target_id)]
       IN
         IF ~target.enabled
         THEN /\ worker' = [worker EXCEPT !.targets = Tail(@)]
              /\ UNCHANGED <<notifications, sent>>
         ELSE IF target.channel \notin routed_channels
         THEN /\ worker' = step("none")
              /\ UNCHANGED <<notifications, sent>>
         ELSE IF target.channel = "email" /\ ~ZammadEnabled
         THEN /\ worker' = step("error")
              /\ notifications' =
                    Append(notifications, NotificationRow(worker, target_id, "error"))
              /\ UNCHANGED sent
         ELSE IF ~adapter_enabled(target.channel)
         THEN /\ worker' = step("ok")
              /\ notifications' =
                    Append(notifications, NotificationRow(worker, target_id, "ok"))
              /\ UNCHANGED sent
         ELSE \E result \in request_outcomes(target.channel) :
                /\ worker' = step(result)
                /\ sent' = Append(sent, [alarm_id |-> worker.alarm_id,
                                         step_no |-> worker.step_no,
                                         channel |-> target.channel,
                                         target_id |-> target_id,
                                         priority |-> worker.priority,
                                         outcome |-> result])
                /\ notifications' =
                      Append(notifications,
                             NotificationRow(worker, target_id,
                                             logged_result(target.channel, result)))
    /\ UNCHANGED <<alarms, jobs, deferred, outsideWorker>>

\* alarm_created after the fan-out: one escalate job per scheduled step
ScheduleEscalations ==
    /\ worker.pc = "send"
    /\ worker.targets = <<>>
    /\ worker.fn = "alarm_created"
    /\ deferred' = deferred \cup
          {[alarm_id |-> worker.alarm_id, step_no |-> e[1], defer_by |-> e[2]] :
              e \in get_escalation_schedule}
    /\ worker' = Returned(worker)
    /\ UNCHANGED <<alarms, jobs, notifications, sent, outsideWorker>>

\* escalate after the fan-out: "escalation_completed"
EscalationCompleted ==
    /\ worker.pc = "send"
    /\ worker.targets = <<>>
    /\ worker.fn = "escalate"
    /\ worker' = Returned(worker)
    /\ UNCHANGED <<alarms, jobs, deferred, notifications, sent, outsideWorker>>

WorkerNext ==
    \/ RunJob
    \/ EscalateJob
    \/ SendToChannel
    \/ ScheduleEscalations
    \/ EscalationCompleted

EscNext ==
    \/ \E s \in EscSessions : LifeLoad(s)
    \/ \E s \in EscSessions : LifeApply(s)
    \/ WorkerNext

SpecEsc == EscInit /\ [][EscNext]_vars

\* C37: no notification of an escalation step N > 0 is dispatched for an alarm
\* whose acknowledgment (or resolve / cancel) has been committed: at each
\* adapter call of a running escalate job the row is still TRIGGERED
C37_NoDispatchAfterCommit ==
    [][(Len(sent') > Len(sent) /\ worker.fn = "escalate" /\ worker.step_no > 0)
          => alarms[worker.alarm_id].status = TRIGGERED]_vars

\* The worker with either SMS adapter switched on or off (both are off by
\* default in settings.py) and a webhook target in step 0
ConnSteps ==
    {[step_no |-> 0, after_seconds |-> 0,  target_id |-> "t_sms"],
     [step_no |-> 0, after_seconds |-> 0,  target_id |-> "t_hook"],
     [step_no |-> 1, after_seconds |-> 60, target_id |-> "t_signal"],
     [step_no |-> 1, after_seconds |-> 60, target_id |-> "t_hook"]}

ConnInit ==
    /\ settings \in [rate_limit_per_minute : {1}, simulation_enabled : {FALSE},
                       admin_api_key : {"secret"},
                       yelk_ip_allowlist : {{}}, trusted_proxy_cidrs : {{}},
                       sendxms_enabled : BOOLEAN, signal_enabled : BOOLEAN,
                       webhook_enabled : {FALSE}]
    /\ kv_idem = [k \in IdemKeys |-> NoId]
    /\ kv_rate = [k \in RateKeys |-> 0]
    /\ treq = [r \in Reqs |-> IdleReq]
    /\ alarms = [a \in LifeAlarmIds |-> NewAlarm(a, "tokA", a)]
    /\ jobs = <<HandlerJob("alarm_created", 1)>>
    /\ sess = <<>>
    /\ clock = 1
    /\ bulk = <<>>
    /\ worker = IdleWorker
    /\ escalation_steps = ConnSteps
    /\ http = <<>>
    /\ deferred = {}
    /\ notifications = <<>>
    /\ sent = <<>>
    /\ pager = <<>>

SpecConn == ConnInit /\ [][WorkerNext]_vars

\* an outbound request for the target of row n was sent and answered
\* successfully
AnsweredOk(n) ==
    \E i \in DOMAIN sent :
        /\ sent[i].alarm_id = n.alarm_id /\ sent[i].step_no = n.step_no
        /\ sent[i].target_id = n.target_id
        /\ sent[i].outcome = "ok"

\* C39: a notification row with result "ok" is written only when a request to
\* the channel of its target was sent and answered successfully: none for a
\* disabled adapter, none for an error status of the remote endpoint
C39_OkRowOnlyAfterSuccess ==
    \A k \in DOMAIN notifications :
        notifications[k].result = "ok" => AnsweredOk(notifications[k])

\* The trigger pipeline and a running worker on one queue.  The jobs of the
\* pipeline carry the name JOB_NAME, so of the steps of the worker only RunJob
\* is ever enabled here (worker.pc stays "idle").
QueueInit ==
    /\ settings \in [rate_limit_per_minute : 1..MaxRate, simulation_enabled : {FALSE},
                       admin_api_key : {"secret"},
                       yelk_ip_allowlist : {{}}, trusted_proxy_cidrs : {{}},
                       sendxms_enabled : {TRUE}, signal_enabled : {TRUE},
                       webhook_enabled : {FALSE}]
    /\ kv_idem = [k \in IdemKeys |-> NoId]
    /\ kv_rate = [k \in RateKeys |-> 0]
    /\ alarms = <<>>
    /\ jobs = <<>>
    /\ treq = [r \in Reqs |-> IdleReq]
    /\ sess = <<>>
    /\ clock = 1
    /\ bulk = <<>>
    /\ worker = IdleWorker
    /\ escalation_steps = EscalationSteps
    /\ http = <<>>
    /\ deferred = {}
    /\ notifications = <<>>
    /\ sent = <<>>
    /\ pager = <<>>

QueueNext ==
    \/ \E r \in Reqs : FaultStart(r) \/ TriggerSteps(r)
    \/ RunJob

\* the queue and the worker keep running: a job at the head of the queue of
\* an idle worker is taken
SpecQueue == QueueInit /\ [][QueueNext]_vars /\ WF_vars(RunJob)

(***************************************************************************)
(* Claims about the jobs of the trigger pipeline (checked under SpecQueue).*)
(***************************************************************************)
CreatedJobQueued(id) ==
    \E i \in DOMAIN jobs :
        jobs[i].event_type = "alarm.created" /\ jobs[i].alarm_id = id

\* C40: a job is enqueued only for an alarm whose row was committed before
\* the enqueueing step; every job in the queue, every deferred escalate job
\* and the job the worker has taken carry the id of an existing row
C40_JobAfterCommit ==
    /\ [][\A k \in DOMAIN Enqueued : Enqueued[k].alarm_id \in DOMAIN alarms]_vars
    /\ [](\A i \in DOMAIN jobs : jobs[i].alarm_id \in DOMAIN alarms)
    /\ [](\A job \in deferred : job.alarm_id \in DOMAIN alarms)
    /\ [](worker.alarm_id # NoId => worker.alarm_id \in DOMAIN alarms)

\* the worker has taken the "created" job of a committed alarm off the queue
\* (the "state_changed" job of the same request is next)
C40_Witness ==
    /\ worker.alarm_id \in DOMAIN alarms
    /\ jobs # <<>>
    /\ Head(jobs).event_type = "alarm.state_changed"
    /\ Head(jobs).alarm_id = worker.alarm_id
    /\ \E r \in Reqs : treq[r].created /\ treq[r].alarm_id = worker.alarm_id

\* C28: every "created" job the trigger pipeline enqueues is eventually taken
\* by the worker and executed by alarm_created (as stated; the worker has no
\* function of the name the job carries, fails the job, and alarm_created
\* never runs)
C28_CreatedJobExecuted ==
    \A id \in AlarmIds :
        CreatedJobQueued(id) ~> (worker.fn = "alarm_created" /\ worker.alarm_id = id)

\* C28: what does hold: every "created" job is eventually taken off the
\* queue, and the worker is never inside a handler
C28_CreatedJobDropped ==
    /\ \A id \in AlarmIds : CreatedJobQueued(id) ~> ~CreatedJobQueued(id)
    /\ [](worker.pc = "idle" /\ worker.fn \in {None, "not_found"})

(***************************************************************************)
(* Claims about the escalation jobs (checked under SpecEsc).               *)
(***************************************************************************)
\* C4: an escalate job of a step N > 0 dispatches only if the status it read
\* is TRIGGERED; a job that read ACKNOWLEDGED, RESOLVED or CANCELLED returns
\* at once, calls no channel adapter and writes no AlarmNotification row
C4_EscalateOnlyWhenTriggered ==
    [][ /\ ( /\ worker.fn = "escalate" /\ worker.step_no > 0
             /\ (sent' # sent \/ notifications' # notifications) )
           => worker.seen = TRIGGERED
        /\ ( /\ worker.pc = "idle" /\ deferred' # deferred
             /\ worker'.fn = "escalate" /\ worker'.step_no > 0
             /\ worker'.seen \in {ACKNOWLEDGED, RESOLVED, CANCELLED} )
           => /\ worker'.pc = "idle"
              /\ sent' = sent
              /\ notifications' = notifications ]_vars

C4_Witness ==
    /\ worker.fn = "escalate" /\ worker.pc = "idle"
    /\ worker.step_no = 2
    /\ worker.seen = ACKNOWLEDGED
    /\ \E k \in DOMAIN sent : sent[k].step_no = 1
    /\ \A k \in DOMAIN sent : sent[k].step_no # 2
    /\ \A k \in DOMAIN notifications : notifications[k].step_no # 2

\* the enabled targets the policy lists for a step
EnabledTargetsOf(step_no) ==
    {st.target_id : st \in {x \in escalation_steps :
                               /\ x.step_no = step_no
                               /\ EscalationTargets[x.target_id].enabled}}

RowsFor(alarm_id, step_no, target_id) ==
    {k \in DOMAIN notifications :
        /\ notifications[k].alarm_id = alarm_id
        /\ notifications[k].step_no = step_no
        /\ notifications[k].target_id = target_id}

AdapterOutcomes(alarm_id, step_no, target_id) ==
    {sent[k].outcome : k \in {j \in DOMAIN sent :
                                /\ sent[j].alarm_id = alarm_id
                                /\ sent[j].step_no = step_no
                                /\ sent[j].target_id = target_id}}

\* the row of a target agrees with what its adapter call did
RowMatchesOutcome(alarm_id, step_no, target_id) ==
    \A k \in RowsFor(alarm_id, step_no, target_id) :
        /\ notifications[k].result = "ok"
              => AdapterOutcomes(alarm_id, step_no, target_id) = {"ok"}
        /\ notifications[k].result = "error"
              => "ok" \notin AdapterOutcomes(alarm_id, step_no, target_id)

WellFormedResults ==
    \A k \in DOMAIN notifications :
        notifications[k].result \in {"ok", "error", "timeout", "unknown"}

\* C16: once the fan-out of a step has returned, every enabled target of the
\* step, whatever its channel tag, has exactly one AlarmNotification row
\* carrying the alarm id, the step number and the target id, with result ok if
\* the adapter call succeeded and error if it failed
C16_OneRowPerEnabledTarget ==
    /\ WellFormedResults
    /\ worker.sent_all =>
          \A t \in EnabledTargetsOf(worker.step_no) :
              /\ Cardinality(RowsFor(worker.alarm_id, worker.step_no, t)) = 1
              /\ RowMatchesOutcome(worker.alarm_id, worker.step_no, t)

\* C16 for the channel tags _send_to_channel routes (email, sms, signal,
\* webhook): exactly one row per enabled target, agreeing with the adapter
C16_OneRowPerRoutedTarget ==
    /\ WellFormedResults
    /\ worker.sent_all =>
          \A t \in EnabledTargetsOf(worker.step_no) :
              EscalationTargets[t].channel \in routed_channels
                 => /\ Cardinality(RowsFor(worker.alarm_id, worker.step_no, t)) = 1
                    /\ RowMatchesOutcome(worker.alarm_id, worker.step_no, t)

Range(seq) == {seq[k] : k \in DOMAIN seq}

\* C17: a failure while dispatching to one target does not leave the fan-out:
\* during and after the loop every enabled target of the step either has had
\* its dispatch attempt or is still ahead in the loop, so the loop reaches
\* every one of them and the job goes on to its normal end
C17_FailureDoesNotStopFanOut ==
    (worker.pc = "send" \/ worker.sent_all)
       => EnabledTargetsOf(worker.step_no)
             \subseteq (Range(worker.called) \cup Range(worker.targets))

\* the first target of step 1 failed in its adapter and the one after it
\* was dispatched all the same; the job returned normally
C17_Witness ==
    /\ worker.sent_all /\ worker.pc = "idle"
    /\ worker.fn = "escalate" /\ worker.step_no = 1
    /\ worker.called = <<"t_signal", "t_sms">>
    /\ AdapterOutcomes(worker.alarm_id, 1, "t_signal") = {"error"}
    /\ RowsFor(worker.alarm_id, 1, "t_sms") # {}

\* the handler the worker runs has called an adapter, written a step-0 row or
\* scheduled an escalate job for its alarm
CreatedHandlerActs ==
    \/ worker.called # <<>>
    \/ \E i \in DOMAIN notifications :
          notifications[i].alarm_id = worker.alarm_id /\ notifications[i].step_no = 0
    \/ \E job \in deferred : job.alarm_id = worker.alarm_id

\* C29: the created handler that finds its alarm in a status other than
\* TRIGGERED stops: no step-0 dispatch, no deferred escalate job (as stated;
\* alarm_created never looks at the status)
C29_CreatedStopsWhenNotTriggered ==
    (worker.fn = "alarm_created" /\ worker.seen \in AlarmStatus \ {TRIGGERED})
        => ~CreatedHandlerActs

(***************************************************************************)
(* The escalation policy: POST /v1/admin/escalation-policy                 *)
(* (services/policy_service.py apply_escalation_policy) replaces the rows  *)
(* of the policy while the worker runs.  The bodies name targets that      *)
(* exist already (body.targets is empty).                                  *)
(***************************************************************************)
StepIn(step_no, after_seconds, target_ids) ==
    [step_no |-> step_no, after_seconds |-> after_seconds, target_ids |-> target_ids]

\* the seed policy; one whose step 1 is listed twice, with two delays; and
\* three bodies apply_escalation_policy rejects
PolicyBodies ==
    {<<StepIn(0, 0, <<"t_sms">>),
       StepIn(1, 60, <<"t_signal", "t_sms", "t_off">>),
       StepIn(2, 120, <<"t_mail", "t_chat", "t_sms">>)>>,
     <<StepIn(0, 0, <<"t_sms">>),
       StepIn(1, 60, <<"t_signal">>),
       StepIn(1, 90, <<"t_sms">>)>>,
     <<StepIn(1, 60, <<"t_sms">>), StepIn(1, 90, <<"t_sms">>)>>,
     <<StepIn(1, 60, <<"t_sms", "t_sms">>)>>,
     <<StepIn(1, 60, <<"t_nobody">>)>>}

\* "len(step.target_ids) != len(set(step.target_ids))"
duplicate_target_ids(step) ==
    \E i, j \in DOMAIN step.target_ids :
        i < j /\ step.target_ids[i] = step.target_ids[j]

\* "if pair in seen_pairs": a (step_no, target_id) pair of an earlier step
duplicate_pair(steps) ==
    \E i, j \in DOMAIN steps :
        /\ i < j
        /\ steps[i].step_no = steps[j].step_no
        /\ \E k \in DOMAIN steps[i].target_ids, l \in DOMAIN steps[j].target_ids :
              steps[i].target_ids[k] = steps[j].target_ids[l]

missing_target_ids(steps) ==
    UNION {{steps[i].target_ids[k] : k \in DOMAIN steps[i].target_ids} :
              i \in DOMAIN steps} \ DOMAIN EscalationTargets

\* the rows added for body.steps: one per step and target id
step_rows(steps) ==
    UNION {{[step_no |-> steps[i].step_no,
             after_seconds |-> steps[i].after_seconds,
             target_id |-> steps[i].target_ids[k]] : k \in DOMAIN steps[i].target_ids} :
              i \in DOMAIN steps}

\* the table after apply_escalation_policy: unchanged on 400, else the
\* existing rows are deleted and the rows of the body inserted
apply_escalation_policy(steps) ==
    IF \/ \E i \in DOMAIN steps : duplicate_target_ids(steps[i])
       \/ duplicate_pair(steps)
       \/ missing_target_ids(steps) # {}
    THEN escalation_steps
    ELSE step_rows(steps)

ApplyEscalationPolicy ==
    /\ \E steps \in PolicyBodies : escalation_steps' = apply_escalation_policy(steps)
    /\ UNCHANGED <<settings, kv_idem, kv_rate, alarms, jobs, treq, sess, clock, bulk,
                   workerVars, pager, http>>

PolicyNext ==
    \/ ApplyEscalationPolicy
    \/ WorkerNext

SpecPolicy == EscInit /\ [][PolicyNext]_vars

(***************************************************************************)
(* Claims about the scheduling of the escalate jobs (checked under         *)
(* SpecPolicy).                                                            *)
(***************************************************************************)
\* the escalate jobs a step of the worker enqueues for a step number
NewJobs(step_no) ==
    {job \in deferred' \ deferred :
        job.alarm_id = worker.alarm_id /\ job.step_no = step_no}

\* one job for every step_no > 0 of the table, delayed by an after_seconds of
\* that step, and no job for any other step number
OneJobPerStep ==
    /\ \A st \in escalation_steps :
          IF st.step_no > 0
          THEN /\ Cardinality(NewJobs(st.step_no)) = 1
               /\ \A job \in NewJobs(st.step_no) :
                     \E x \in escalation_steps :
                         x.step_no = st.step_no /\ x.after_seconds = job.defer_by
          ELSE NewJobs(st.step_no) = {}
    /\ \A job \in deferred' \ deferred :
          \E st \in escalation_steps : st.step_no = job.step_no /\ st.step_no > 0

\* every row of a step number carries the same after_seconds
UniformDelays ==
    \A a, b \in escalation_steps : a.step_no = b.step_no => a.after_seconds = b.after_seconds

\* C30: one execution of alarm_created enqueues exactly one deferred escalate
\* job for each step_no > 0 of the policy, delayed by that step's
\* after_seconds, whatever the number of targets of the step, and none for
\* step 0 (as stated; a step number listed with two delays gets two jobs)
C30_OneJobPerStep == [][ScheduleEscalations => OneJobPerStep]_vars

\* C30 for a policy whose steps each have one delay
C30_OneJobPerStepOfUniformPolicy ==
    [][(ScheduleEscalations /\ UniformDelays) => OneJobPerStep]_vars

(***************************************************************************)
(* The worker on an alarm of any severity.  The trigger pipeline writes    *)
(* DEFAULT_SEVERITY; the column, the listing filter and the statistics     *)
(* admit every value of PRIORITY_ALL.                                      *)
(***************************************************************************)
SeverityInit ==
    /\ settings \in [rate_limit_per_minute : {1}, simulation_enabled : {FALSE},
                       admin_api_key : {"secret"},
                       yelk_ip_allowlist : {{}}, trusted_proxy_cidrs : {{}},
                       sendxms_enabled : {TRUE}, signal_enabled : {TRUE},
                       webhook_enabled : {FALSE}]
    /\ kv_idem = [k \in IdemKeys |-> NoId]
    /\ kv_rate = [k \in RateKeys |-> 0]
    /\ treq = [r \in Reqs |-> IdleReq]
    /\ \E severity \in PRIORITY_ALL :
          alarms = [a \in LifeAlarmIds |->
                       [NewAlarm(a, "tokA", a) EXCEPT !.severity = severity]]
    /\ jobs = <<HandlerJob("alarm_created", 1)>>
    /\ sess = <<>>
    /\ clock = 1
    /\ bulk = <<>>
    /\ worker = IdleWorker
    /\ deferred = {}
    /\ notifications = <<>>
    /\ sent = <<>>
    /\ pager = <<>>
    /\ escalation_steps = EscalationSteps
    /\ http = <<>>

SpecSeverity == SeverityInit /\ [][WorkerNext]_vars

(***************************************************************************)
(* Claims about the notification payload (checked under SpecSeverity).     *)
(***************************************************************************)
\* C34: the priority in the payload of a step's notification is derived
\* from the severity of the alarm: P0 gives 3, P1 gives 2, P2 gives 2 and P3
\* gives 1 (as stated; the payload reads the severity from the enriched
\* context, which never holds one, so the priority is always that of P0)
C34_PriorityFromSeverity ==
    \A k \in DOMAIN sent :
        LET severity == alarms[sent[k].alarm_id].severity IN
        sent[k].priority = CASE severity = "P0" -> 3
                             [] severity = "P1" -> 2
                             [] severity = "P2" -> 2
                             [] severity = "P3" -> 1

\* C34 as the code has it: every payload carries priority 3
C34_PriorityAlwaysCritical ==
    \A k \in DOMAIN sent : sent[k].priority = 3

(***************************************************************************)
(* The state-change webhook (worker/tasks.py alarm_state_changed and       *)
(* _send_webhook_with_retry), with the webhook switched on or off and a    *)
(* queue of alarm_state_changed jobs.                                      *)
(***************************************************************************)
max_attempts == 3       \* _send_webhook_with_retry(..., max_attempts: int = 3)
MaxHooks == 3           \* alarm_state_changed jobs in the queue

HookJobs == {HandlerJob("alarm_state_changed", a) : a \in LifeAlarmIds \cup {UnknownId}}

WebhookInit ==
    /\ settings \in [rate_limit_per_minute : {1}, simulation_enabled : {FALSE},
                       admin_api_key : {"secret"},
                       yelk_ip_allowlist : {{}}, trusted_proxy_cidrs : {{}},
                       sendxms_enabled : {TRUE}, signal_enabled : {TRUE},
                       webhook_enabled : BOOLEAN]
    /\ kv_idem = [k \in IdemKeys |-> NoId]
    /\ kv_rate = [k \in RateKeys |-> 0]
    /\ treq = [r \in Reqs |-> IdleReq]
    /\ alarms = [a \in LifeAlarmIds |-> NewAlarm(a, "tokA", a)]
    /\ jobs \in UNION {[1..n -> HookJobs] : n \in 1..MaxHooks}
    /\ sess = <<>>
    /\ clock = 1
    /\ bulk = <<>>
    /\ worker = IdleWorker
    /\ deferred = {}
    /\ notifications = <<>>
    /\ sent = <<>>
    /\ pager = <<>>
    /\ escalation_steps = EscalationSteps
    /\ http = <<>>

\* the AlarmNotification row of a delivery: payload {"state", "attempt"} with
\* result "ok", payload {"state", "attempts"} with result "error"
WebhookRow(alarm_id, payload, result) ==
    [alarm_id |-> alarm_id, channel |-> "webhook", target_id |-> None,
     payload |-> payload, result |-> result]

\* one iteration of the loop of _send_webhook_with_retry: http.post and
\* raise_for_status(); a row is written after the successful attempt and
\* after the last failed one, the other failed attempts only sleep
WebhookPost ==
    /\ worker.pc = "webhook"
    /\ \E response \in {"ok", "error"} :
          /\ sent' = Append(sent, [alarm_id |-> worker.alarm_id, channel |-> "webhook",
                                   attempt |-> worker.attempt, outcome |-> response])
          /\ IF response = "ok"
             THEN /\ notifications' =
                        Append(notifications,
                               WebhookRow(worker.alarm_id, [attempt |-> worker.attempt], "ok"))
                  /\ worker' = [worker EXCEPT !.pc = "idle"]
             ELSE IF worker.attempt = max_attempts
             THEN /\ notifications' =
                        Append(notifications,
                               WebhookRow(worker.alarm_id, [attempts |-> max_attempts], "error"))
                  /\ worker' = [worker EXCEPT !.pc = "idle"]
             ELSE /\ worker' = [worker EXCEPT !.attempt = @ + 1]
                  /\ UNCHANGED notifications
    /\ UNCHANGED <<alarms, jobs, deferred, outsideWorker>>

WebhookNext == RunJob \/ WebhookPost

SpecWebhook == WebhookInit /\ [][WebhookNext]_vars

(***************************************************************************)
(* Claims about the webhook delivery (checked under SpecWebhook).          *)
(***************************************************************************)
\* the rows that record an attempt of a delivery with its outcome
AttemptRows(alarm_id, attempt, outcome) ==
    {k \in DOMAIN notifications :
        /\ notifications[k].alarm_id = alarm_id
        /\ notifications[k].channel = "webhook"
        /\ "attempt" \in DOMAIN notifications[k].payload
        /\ notifications[k].payload.attempt = attempt
        /\ notifications[k].result = outcome}

Posts(alarm_id, attempt, outcome) ==
    {k \in DOMAIN sent :
        /\ sent[k].alarm_id = alarm_id
        /\ sent[k].attempt = attempt
        /\ sent[k].outcome = outcome}

\* a delivery makes at most max_attempts attempts, numbered from 1, and an
\* attempt follows only a failed one
AttemptsInOrder ==
    \A k \in DOMAIN sent :
        /\ sent[k].attempt \in 1..max_attempts
        /\ sent[k].attempt > 1 =>
              /\ k > 1
              /\ sent[k - 1].alarm_id = sent[k].alarm_id
              /\ sent[k - 1].attempt = sent[k].attempt - 1
              /\ sent[k - 1].outcome = "error"

\* C32: every HTTP attempt of a webhook delivery, failed or successful, has
\* its own AlarmNotification row carrying its attempt number; a delivery
\* makes at most 3 attempts and stops at the first successful one (as
\* stated; only the successful attempt and the last failed one get a row, and
\* the row of the failure carries the number of attempts made)
C32_RowPerAttempt ==
    /\ AttemptsInOrder
    /\ worker.pc = "idle" =>
          \A a \in LifeAlarmIds, n \in 1..max_attempts, o \in {"ok", "error"} :
              Cardinality(AttemptRows(a, n, o)) = Cardinality(Posts(a, n, o))

\* C32 as the code has it: one row per finished delivery, "ok" with the
\* number of the successful attempt or "error" after max_attempts failures
C32_RowPerDelivery ==
    /\ AttemptsInOrder
    /\ worker.pc = "idle" =>
          /\ \A a \in LifeAlarmIds, n \in 1..max_attempts :
                Cardinality(AttemptRows(a, n, "ok")) = Cardinality(Posts(a, n, "ok"))
          /\ \A a \in LifeAlarmIds :
                Cardinality({k \in DOMAIN notifications :
                               /\ notifications[k].alarm_id = a
                               /\ notifications[k].result = "error"})
                  = Cardinality(Posts(a, max_attempts, "error"))

(***************************************************************************)
(* The connectors (connectors/base.py): _post_with_retry and               *)
(* _put_with_retry are retried functions that call _request_with_retry,    *)
(* itself a retried function (stop_after_attempt(3), reraise=True; every   *)
(* exception is retried).                                                  *)
(***************************************************************************)
RetryAttempts == 3      \* stop_after_attempt(3)

\* the connector methods that go through _post_with_retry / _put_with_retry
ConnectorCalls ==
    [create_ticket |-> "POST", add_internal_note |-> "PUT", send_sms |-> "POST"]

\* what one HTTP request ends with: a 2xx response, raise_for_status()
\* raising, or the transport failing
Responses == {"ok", "HTTPStatusError", "RequestError"}

\* outer: attempt of _post_with_retry / _put_with_retry; inner: attempt of
\* _request_with_retry; requests: the HTTP requests sent, by what they ended
\* with; raised: the exception the call surfaces to its caller
IdleHttp == [pc |-> "idle", fn |-> None, method |-> None, enabled |-> FALSE,
             outer |-> 0, inner |-> 0, requests |-> <<>>, raised |-> None]

RetryInit ==
    /\ settings \in [rate_limit_per_minute : {1}, simulation_enabled : {FALSE},
                       admin_api_key : {"secret"},
                       yelk_ip_allowlist : {{}}, trusted_proxy_cidrs : {{}},
                       sendxms_enabled : {TRUE}, signal_enabled : {TRUE},
                       webhook_enabled : {FALSE}]
    /\ kv_idem = [k \in IdemKeys |-> NoId]
    /\ kv_rate = [k \in RateKeys |-> 0]
    /\ alarms = <<>>
    /\ jobs = <<>>
    /\ treq = [r \in Reqs |-> IdleReq]
    /\ sess = <<>>
    /\ clock = 1
    /\ bulk = <<>>
    /\ worker = <<>>
    /\ deferred = {}
    /\ notifications = <<>>
    /\ sent = <<>>
    /\ pager = <<>>
    /\ escalation_steps = {}
    /\ http = IdleHttp

\* a connector method calls its retrying helper; enabled is self.enabled()
ConnectorCall ==
    /\ http.pc = "idle"
    /\ \E fn \in DOMAIN ConnectorCalls, enabled \in BOOLEAN :
          http' = [IdleHttp EXCEPT !.pc = "request", !.fn = fn,
                                   !.method = ConnectorCalls[fn],
                                   !.enabled = enabled, !.outer = 1, !.inner = 1]
    /\ UNCHANGED <<settings, kv_idem, kv_rate, alarms, jobs, treq, sess, clock, bulk,
                   workerVars, pager, escalation_steps>>

\* an exception leaves the body of _request_with_retry: its own retry
\* decorator runs the body again until its third attempt, then re-raises
\* into _post_with_retry / _put_with_retry, whose decorator calls
\* _request_with_retry afresh until its own third attempt
after_exception(h, exc) ==
    IF h.inner < RetryAttempts
    THEN [h EXCEPT !.inner = @ + 1]
    ELSE IF h.outer < RetryAttempts
    THEN [h EXCEPT !.outer = @ + 1, !.inner = 1]
    ELSE [h EXCEPT !.pc = "done", !.raised = exc]

\* one run of the body of _request_with_retry: "if not self.enabled(): raise
\* RuntimeError", else one HTTP request and raise_for_status()
RequestAttempt ==
    /\ http.pc = "request"
    /\ IF ~http.enabled
       THEN http' = after_exception(http, "RuntimeError")
       ELSE \E response \in Responses :
              LET h == [http EXCEPT !.requests = Append(@, response)] IN
              http' = IF response = "ok" THEN [h EXCEPT !.pc = "done"]
                      ELSE after_exception(h, response)
    /\ UNCHANGED <<settings, kv_idem, kv_rate, alarms, jobs, treq, sess, clock, bulk,
                   workerVars, pager, escalation_steps>>

RetryNext == ConnectorCall \/ RequestAttempt

\* the event loop keeps running the call
SpecRetry == RetryInit /\ [][RetryNext]_vars /\ WF_vars(RequestAttempt)

(***************************************************************************)
(* Claims about the retrying helpers (checked under SpecRetry).            *)
(***************************************************************************)
\* C31: a call through the retrying POST / PUT helper sends at most 3 HTTP
\* requests before its failure is surfaced as one error, and it terminates
\* (as stated; the two retry decorators are nested, so 3 x 3 requests are
\* sent before the error is surfaced)
C31_AtMostThreeRequests ==
    /\ [](Len(http.requests) <= RetryAttempts)
    /\ (http.pc = "request") ~> (http.pc = "done")

\* C31 with the bound the nesting gives: at most RetryAttempts * RetryAttempts
\* requests, none after a successful one, one exception surfaced when all
\* have failed, and the call terminates
C31_AtMostNineRequests ==
    /\ [](/\ Len(http.requests) <= RetryAttempts * RetryAttempts
          /\ \A i \in DOMAIN http.requests :
                http.requests[i] = "ok" => i = Len(http.requests) /\ http.pc = "done"
          /\ http.raised # None =>
                /\ http.pc = "done"
                /\ http.enabled => /\ Len(http.requests) = RetryAttempts * RetryAttempts
                                    /\ http.raised = http.requests[Len(http.requests)])
    /\ (http.pc = "request") ~> (http.pc = "done")

(***************************************************************************)
(* Listing: GET /v1/alarms (api/routes/alarms.py list_alarms), walked by a *)
(* client that follows X-Next-Cursor until the header is absent.           *)
(***************************************************************************)
MaxRows == 2         \* number of rows in the alarms table
MaxLimit == 2        \* largest value of the limit parameter (the API allows 200)
MaxCreatedAt == 2    \* created_at values are 1..MaxCreatedAt

SortField == {"created_at", "status", "severity"}
SortOrder == {"desc", "asc"}
Severities == {"P0", "P1"}

\* ORDER BY on the status column: the order of the members of AlarmStatus
StatusRank(st) ==
    CASE st = TRIGGERED -> 1 [] st = ACKNOWLEDGED -> 2 [] st = RESOLVED -> 3
      [] st = CANCELLED -> 4

\* ORDER BY on the severity column: string order
SeverityRank(sev) == CASE sev = "P0" -> 0 [] sev = "P1" -> 1

\* the columns of a row that the listing uses
RowColumns == [created_at : 1..MaxCreatedAt, status : AlarmStatus, severity : Severities]

\* the tables: ids are unique
Tables ==
    UNION {{{[id |-> i, created_at |-> f[i].created_at, status |-> f[i].status,
              severity |-> f[i].severity] : i \in ids} : f \in [ids -> RowColumns]} :
           ids \in SUBSET (1..MaxRows)}

\* getattr(Alarm, sort_by.value)
sort_column(row, sort_by) ==
    CASE sort_by = "created_at" -> row.created_at
      [] sort_by = "status" -> StatusRank(row.status)
      [] sort_by = "severity" -> SeverityRank(row.severity)

\* _apply_alarm_filters, for the status filter
_apply_alarm_filters(rows, status) ==
    IF status = None THEN rows ELSE {r \in rows : r.status = status}

\* the continuation predicate of list_alarms: it compares created_at and id
\* whatever the sort field
after_cursor(row, cursor_alarm, sort_by, sort_order) ==
    IF sort_order = "desc"
    THEN \/ row.created_at < cursor_alarm.created_at
         \/ row.created_at = cursor_alarm.created_at /\ row.id < cursor_alarm.id
    ELSE \/ row.created_at > cursor_alarm.created_at
         \/ row.created_at = cursor_alarm.created_at /\ row.id > cursor_alarm.id

\* order_by(sort_column, Alarm.id), both in the requested direction
ordered_before(x, y, sort_by, sort_order) ==
    IF sort_order = "desc"
    THEN \/ sort_column(x, sort_by) > sort_column(y, sort_by)
         \/ sort_column(x, sort_by) = sort_column(y, sort_by) /\ x.id > y.id
    ELSE \/ sort_column(x, sort_by) < sort_column(y, sort_by)
         \/ sort_column(x, sort_by) = sort_column(y, sort_by) /\ x.id < y.id

\* the result of the statement: the rows in order, cut at n
select_ordered(rows, sort_by, sort_order, n) ==
    LET pos(r) == Cardinality({x \in rows : ordered_before(x, r, sort_by, sort_order)})
        len == IF Cardinality(rows) < n THEN Cardinality(rows) ELSE n
    IN [i \in 1..len |-> CHOOSE r \in rows : pos(r) = i - 1]

\* one call of list_alarms: the page and the X-Next-Cursor header
list_alarms(table, status, limit, cursor, sort_by, sort_order) ==
    LET filtered == _apply_alarm_filters(table, status)
        cursor_rows == {r \in table : r.id = cursor}
        continued ==
            IF cursor # NoId /\ cursor_rows # {}
            THEN LET cursor_alarm == CHOOSE r \in cursor_rows : TRUE IN
                 {r \in filtered : after_cursor(r, cursor_alarm, sort_by, sort_order)}
            ELSE filtered
        found == select_ordered(continued, sort_by, sort_order, limit + 1)
        has_more == Len(found) > limit
        page == SubSeq(found, 1, IF has_more THEN limit ELSE Len(found))
    IN [page |-> page,
        next_cursor |-> IF has_more /\ page # <<>> THEN page[Len(page)].id ELSE NoId]

PageInit ==
    /\ settings \in [rate_limit_per_minute : {1}, simulation_enabled : {FALSE},
                       admin_api_key : {"secret"},
                       yelk_ip_allowlist : {{}}, trusted_proxy_cidrs : {{}},
                       sendxms_enabled : {TRUE}, signal_enabled : {TRUE},
                       webhook_enabled : {FALSE}]
    /\ kv_idem = [k \in IdemKeys |-> NoId]
    /\ kv_rate = [k \in RateKeys |-> 0]
    /\ treq = [r \in Reqs |-> IdleReq]
    /\ alarms = <<>>
    /\ jobs = <<>>
    /\ sess = <<>>
    /\ clock = 1
    /\ bulk = <<>>
    /\ NoWorker
    /\ \E table \in Tables, status \in {None, TRIGGERED}, limit \in 1..MaxLimit,
          sort_by \in SortField, sort_order \in SortOrder :
          pager = [pc |-> "next", table |-> table, status |-> status, limit |-> limit,
                   sort_by |-> sort_by, sort_order |-> sort_order,
                   cursor |-> NoId, visited |-> <<>>, pages |-> 0]

\* the client requests the next page and keeps the cursor of the response
PageFetch ==
    /\ pager.pc = "next"
    /\ LET out == list_alarms(pager.table, pager.status, pager.limit, pager.cursor,
                              pager.sort_by, pager.sort_order)
       IN pager' = [pager EXCEPT !.visited = @ \o [i \in DOMAIN out.page |-> out.page[i].id],
                                 !.cursor = out.next_cursor,
                                 !.pages = @ + 1,
                                 !.pc = IF out.next_cursor = NoId THEN "done" ELSE "next"]
    /\ UNCHANGED <<settings, kv_idem, kv_rate, treq, alarms, jobs, sess, clock, bulk,
                   workerVars, escalation_steps, http>>

PageNext == PageFetch

SpecPage == PageInit /\ [][PageNext]_vars

(***************************************************************************)
(* Claims about the listing (checked under SpecPage).                      *)
(***************************************************************************)
Matching == {r.id : r \in _apply_alarm_filters(pager.table, pager.status)}

VisitedOnce ==
    /\ {pager.visited[k] : k \in DOMAIN pager.visited} = Matching
    /\ Len(pager.visited) = Cardinality(Matching)

\* C9: following the cursor to the end visits every matching alarm exactly
\* once, for each sort field, both orders and every limit
C9_CursorVisitsEachOnce == pager.pc = "done" => VisitedOnce

\* the same walk when the rows are sorted by created_at, the column the
\* continuation predicate compares
C9_CreatedAtWalk ==
    (pager.pc = "done" /\ pager.sort_by = "created_at") => VisitedOnce

====
